---- MODULE Spec2Model ----
(***************************************************************************)
(* Model of custom_components/member_adjacency/manager.py: the             *)
(* AdjacencyManager of the Member Adjacency integration.                   *)
(*                                                                         *)
(* Conventions of the model                                                *)
(*  - Times are whole seconds since the manager was constructed; the clock *)
(*    dt_util.utcnow() is the variable now.  One call of async_refresh     *)
(*    contains no await, so every utcnow() it makes reads the same value.  *)
(*    isoformat() of a time is injective and is modelled by the time.      *)
(*  - A coordinate pair is a position in metres on one great circle, so    *)
(*    that ha_distance (Home Assistant's great-circle distance) is the     *)
(*    absolute difference of two positions.                                *)
(*  - Python's None is None (-1) for numbers and "None" for strings; a     *)
(*    float speed is the exact fraction [num, den] (den = 0: None).        *)
(*  - The reason strings of the reliability check are modelled by their    *)
(*    code (the text before the bracketed numbers).                        *)
(***************************************************************************)
EXTENDS Integers, Sequences, FiniteSets, TLC

VARIABLES
    now,         \* dt_util.utcnow()
    entry,       \* the ConfigEntry options read by _get
    mgr,         \* the AdjacencyManager: its fields and its AdjacencyData
    bus,         \* hass.bus: the events fired by the latest async_refresh
    last,        \* the locals of the latest async_refresh
    n_refresh,   \* number of async_refresh calls made so far
    watch,       \* observer of the readings that reached the movement filter
    twin,        \* a second AdjacencyManager fed the same readings
    twin_entry,  \* the ConfigEntry options of the second manager
    flow,        \* the config entry as stored and the latest flow step
    loop,        \* the event loop of hass: pending timers and tasks
    probe,       \* a distance and the bucket _bucket returned for it
    press,       \* the coroutine of the refresh button's async_press
    extract,     \* a state object and what _get_accuracy_m returned for it
    platform,    \* the sensor platform: its three entities and the readings they share
    prior,       \* the AdjacencyManager as the latest recorded async_refresh found it
    heard,       \* the events a listener on hass.bus has received, oldest first
    coord        \* the MemberAdjacencyCoordinator of coordinator.py

vars == <<now, entry, mgr, bus, last, n_refresh, watch, twin, twin_entry, flow, loop,
          probe, press, extract, platform, prior, heard,
          coord>>

-----------------------------------------------------------------------------
(* const.py *)

DEFAULT_ENTRY_THRESHOLD_M == 500
DEFAULT_EXIT_THRESHOLD_M == 700
DEFAULT_DEBOUNCE_SECONDS == 2
DEFAULT_MAX_ACCURACY_M == 200
DEFAULT_RESYNC_HOLD_S == 60
DEFAULT_MAX_SPEED_KMH == 150
DEFAULT_MIN_UPDATES_FOR_PROXIMITY == 3

DEFAULT_FORCE_METERS == FALSE

EVENT_ENTER == "member_adjacency_enter"
EVENT_LEAVE == "member_adjacency_leave"
EVENT_PROXIMITY_UPDATE == "member_adjacency_proximity_update"
EVENT_ENTER_UNRELIABLE == "member_adjacency_enter_unreliable"

\* The bound of the catch-all bucket, 10**12 in const.py, lies beyond the
\* integers of the model checker; it stands above every modelled distance.
BUCKET_CATCH_ALL == 2147483647

BUCKETS ==
    << <<50, "very_near">>, <<200, "near">>, <<1000, "mid">>,
       <<5000, "far">>, <<BUCKET_CATCH_ALL, "very_far">> >>

-----------------------------------------------------------------------------
(* Bounds of the model *)

\* The clock stops after MaxTicks steps of TickS seconds.
MaxTicks == 4
\* At most MaxRefresh calls of async_refresh are made.
MaxRefresh == 3

\* Granularity of the clock: the clock advances in steps of one default hold.
TickS == DEFAULT_RESYNC_HOLD_S

-----------------------------------------------------------------------------
(* Values *)

None == -1
NoneStr == "None"
NoSpeed == [num |-> 0, den |-> 0]

Abs(x) == IF x < 0 THEN 0 - x ELSE x

\* homeassistant.util.location.distance on positions along one great circle
ha_distance(c1, c2) == Abs(c1 - c2)

\* (dist_m / dt_seconds) * 3.6 as an exact fraction of km/h
SpeedKmh(delta_m, dt_seconds) == [num |-> delta_m * 36, den |-> dt_seconds * 10]

\* speed > limit for a fraction with a positive denominator
SpeedGt(speed, limit) == speed.num > limit * speed.den

-----------------------------------------------------------------------------
(* AdjacencyData() and AdjacencyManager.__init__ *)

AdjacencyData ==
    [ distance_m            |-> None,
      bucket                |-> NoneStr,
      proximity             |-> FALSE,
      data_valid            |-> FALSE,
      last_valid_updated    |-> None,
      last_error            |-> NoneStr,
      last_changed          |-> None,
      last_entered          |-> None,
      last_left             |-> None,
      accuracy_a            |-> None,
      accuracy_b            |-> None,
      proximity_update_count |-> 0,
      proximity_reliable    |-> TRUE,
      unreliable_reason     |-> NoneStr,
      a_updates_in_window   |-> 0,
      b_updates_in_window   |-> 0,
      convergence_speed_kmh |-> NoSpeed ]

AdjacencyManager ==
    [ data               |-> AdjacencyData,
      _proximity_since   |-> None,
      a_prev_coords      |-> None,
      b_prev_coords      |-> None,
      a_last_fix         |-> None,
      b_last_fix         |-> None,
      a_speed_kmh        |-> NoSpeed,
      b_speed_kmh        |-> NoSpeed,
      a_resync_until     |-> None,
      b_resync_until     |-> None,
      a_update_history   |-> << >>,
      b_update_history   |-> << >>,
      _prev_distance_m   |-> None,
      _prev_distance_time |-> None,
      debounce_s         |-> DEFAULT_DEBOUNCE_SECONDS,
      _unsub             |-> FALSE,
      _cancel_debounce   |-> None ]

-----------------------------------------------------------------------------
(* _bucket *)

RECURSIVE BucketFrom(_, _)
BucketFrom(i, distance_m) ==
    IF i > Len(BUCKETS) THEN BUCKETS[Len(BUCKETS)][2]
    ELSE IF distance_m < BUCKETS[i][1] THEN BUCKETS[i][2]
    ELSE BucketFrom(i + 1, distance_m)

RECURSIVE BucketFromInclusive(_, _)
\* Variant: a distance equal to a bound stays in the bucket below it.
BucketFromInclusive(i, distance_m) ==
    IF i > Len(BUCKETS) THEN BUCKETS[Len(BUCKETS)][2]
    ELSE IF distance_m <= BUCKETS[i][1] THEN BUCKETS[i][2]
    ELSE BucketFromInclusive(i + 1, distance_m)

_bucket_inclusive(distance_m) == BucketFromInclusive(1, distance_m)

_bucket(distance_m) == BucketFrom(1, distance_m)

-----------------------------------------------------------------------------
(* Update histories *)

RECURSIVE SelectFrom(_, _)
\* [ts for ts in history if ts >= cutoff]
SelectFrom(history, cutoff) ==
    IF history = << >> THEN << >>
    ELSE IF Head(history) >= cutoff
         THEN <<Head(history)>> \o SelectFrom(Tail(history), cutoff)
         ELSE SelectFrom(Tail(history), cutoff)

_count_recent_updates(history, window_s, t) ==
    Len(SelectFrom(history, t - window_s))

\* Variant: nothing is dropped.
_prune_history_keeps_all(history, window_s, t) ==
    history

_prune_history(history, window_s, t) ==
    SelectFrom(history, t - window_s)

\* Variant: only side "a" gets the timestamp.
_record_update_a_only(m, e, t, side) ==
    IF side = "a"
    THEN [m EXCEPT !.a_update_history =
             _prune_history(Append(m.a_update_history, t), e.update_window_s * 2, t)]
    ELSE m

_record_update(m, e, t, side) ==
    IF side = "a"
    THEN [m EXCEPT !.a_update_history =
             _prune_history(Append(m.a_update_history, t), e.update_window_s * 2, t)]
    ELSE [m EXCEPT !.b_update_history =
             _prune_history(Append(m.b_update_history, t), e.update_window_s * 2, t)]

-----------------------------------------------------------------------------
(* Reliability *)

\* Variant: the speed is that of the growth of the distance.
_calculate_convergence_speed_growth(m, t, current_distance_m) ==
    IF m._prev_distance_m = None \/ m._prev_distance_time = None THEN NoSpeed
    ELSE IF t - m._prev_distance_time <= 0 THEN NoSpeed
    ELSE SpeedKmh(current_distance_m - m._prev_distance_m, t - m._prev_distance_time)

_calculate_convergence_speed(m, t, current_distance_m) ==
    IF m._prev_distance_m = None \/ m._prev_distance_time = None THEN NoSpeed
    ELSE IF t - m._prev_distance_time <= 0 THEN NoSpeed
    ELSE SpeedKmh(m._prev_distance_m - current_distance_m, t - m._prev_distance_time)

\* Variant: the convergence speed is checked before the update counts.
_check_proximity_reliability_speed_first(m, e, t, current_distance_m) ==
    LET a_updates == _count_recent_updates(m.a_update_history, e.update_window_s, t)
        b_updates == _count_recent_updates(m.b_update_history, e.update_window_s, t)
        convergence == _calculate_convergence_speed(m, t, current_distance_m)
        m2 == [m EXCEPT !.data.a_updates_in_window = a_updates,
                        !.data.b_updates_in_window = b_updates,
                        !.data.convergence_speed_kmh = convergence]
    IN  IF convergence # NoSpeed /\ SpeedGt(convergence, e.max_speed_kmh * 2)
        THEN [m |-> m2, reliable |-> FALSE, reason |-> "unrealistic_convergence"]
        ELSE IF a_updates < e.min_updates_for_proximity
        THEN [m |-> m2, reliable |-> FALSE, reason |-> "insufficient_updates_a"]
        ELSE IF b_updates < e.min_updates_for_proximity
        THEN [m |-> m2, reliable |-> FALSE, reason |-> "insufficient_updates_b"]
        ELSE IF m.a_resync_until # None /\ t < m.a_resync_until
        THEN [m |-> m2, reliable |-> FALSE, reason |-> "resync_a"]
        ELSE IF m.b_resync_until # None /\ t < m.b_resync_until
        THEN [m |-> m2, reliable |-> FALSE, reason |-> "resync_b"]
        ELSE [m |-> m2, reliable |-> TRUE, reason |-> NoneStr]

\* Returns the manager (its data annotated), the verdict and the reason code.
_check_proximity_reliability(m, e, t, current_distance_m) ==
    LET a_updates == _count_recent_updates(m.a_update_history, e.update_window_s, t)
        b_updates == _count_recent_updates(m.b_update_history, e.update_window_s, t)
        m1 == [m EXCEPT !.data.a_updates_in_window = a_updates,
                        !.data.b_updates_in_window = b_updates]
        convergence == _calculate_convergence_speed(m, t, current_distance_m)
        m2 == [m1 EXCEPT !.data.convergence_speed_kmh = convergence]
        max_convergence == e.max_speed_kmh * 2
    IN  IF a_updates < e.min_updates_for_proximity
        THEN [m |-> m1, reliable |-> FALSE, reason |-> "insufficient_updates_a"]
        ELSE IF b_updates < e.min_updates_for_proximity
        THEN [m |-> m1, reliable |-> FALSE, reason |-> "insufficient_updates_b"]
        ELSE IF convergence # NoSpeed /\ SpeedGt(convergence, max_convergence)
        THEN [m |-> m2, reliable |-> FALSE, reason |-> "unrealistic_convergence"]
        ELSE IF m.a_resync_until # None /\ t < m.a_resync_until
        THEN [m |-> m2, reliable |-> FALSE, reason |-> "resync_a"]
        ELSE IF m.b_resync_until # None /\ t < m.b_resync_until
        THEN [m |-> m2, reliable |-> FALSE, reason |-> "resync_b"]
        ELSE [m |-> m2, reliable |-> TRUE, reason |-> NoneStr]

-----------------------------------------------------------------------------
(* Movement filter *)

\* The per-side fields process_side reads (side is "a" or "b").
SideOf(m, side) ==
    IF side = "a"
    THEN [prev_coords |-> m.a_prev_coords, last_fix |-> m.a_last_fix,
          speed_kmh |-> m.a_speed_kmh, resync_until |-> m.a_resync_until]
    ELSE [prev_coords |-> m.b_prev_coords, last_fix |-> m.b_last_fix,
          speed_kmh |-> m.b_speed_kmh, resync_until |-> m.b_resync_until]

\* The per-side fields process_side writes.
SetSide(m, side, s) ==
    IF side = "a"
    THEN [m EXCEPT !.a_prev_coords = s.prev_coords, !.a_last_fix = s.last_fix,
                   !.a_speed_kmh = s.speed_kmh, !.a_resync_until = s.resync_until]
    ELSE [m EXCEPT !.b_prev_coords = s.prev_coords, !.b_last_fix = s.last_fix,
                   !.b_speed_kmh = s.speed_kmh, !.b_resync_until = s.resync_until]

\* Variant: the limit is applied even when it is 0 (filter disabled).
SpeedRejectedUnguarded(e, speed_kmh) ==
    SpeedGt(speed_kmh, e.max_speed_kmh)

\* max_speed_kmh > 0 and speed_kmh > max_speed_kmh
SpeedRejected(e, speed_kmh) ==
    e.max_speed_kmh > 0 /\ SpeedGt(speed_kmh, e.max_speed_kmh)

\* last_fix and (now - last_fix).total_seconds() > resync_silence_s
SilenceDetected(e, t, last_fix) ==
    last_fix # None /\ t - last_fix > e.resync_silence_s

\* Variant: the hold window rejects nothing.
InResyncHoldIgnored(t, resync_until) ==
    FALSE

\* resync_until and now < resync_until
InResyncHold(t, resync_until) ==
    resync_until # None /\ t < resync_until

\* Variant: a reading rejected for its speed leaves the previous fix alone.
process_side_rejected_dropped(m, e, t, side, coords) ==
    LET s == SideOf(m, side)
        dt_seconds == t - s.last_fix
        dist_m == ha_distance(s.prev_coords, coords)
        speed_kmh == SpeedKmh(dist_m, dt_seconds)
    IN  IF coords = None THEN [m |-> m, err |-> NoneStr]
        ELSE IF SilenceDetected(e, t, s.last_fix)
        THEN [m |-> SetSide(m, side, [prev_coords |-> coords, last_fix |-> t,
                                      speed_kmh |-> NoSpeed,
                                      resync_until |-> t + e.resync_hold_s]),
              err |-> "resync_" \o side]
        ELSE IF InResyncHold(t, s.resync_until)
        THEN [m |-> SetSide(m, side, [s EXCEPT !.prev_coords = coords, !.last_fix = t,
                                               !.speed_kmh = NoSpeed]),
              err |-> "resync_" \o side]
        ELSE IF s.prev_coords = None \/ s.last_fix = None
        THEN [m |-> SetSide(m, side, [s EXCEPT !.prev_coords = coords, !.last_fix = t,
                                               !.speed_kmh = NoSpeed]),
              err |-> NoneStr]
        ELSE IF dt_seconds <= 0
        THEN [m |-> SetSide(m, side, [s EXCEPT !.prev_coords = coords, !.last_fix = t,
                                               !.speed_kmh = NoSpeed]),
              err |-> NoneStr]
        ELSE IF SpeedRejected(e, speed_kmh)
        THEN [m |-> SetSide(m, side, [s EXCEPT !.speed_kmh = speed_kmh]),
              err |-> "speed_filtered_" \o side]
        ELSE [m |-> SetSide(m, side, [s EXCEPT !.prev_coords = coords, !.last_fix = t,
                                               !.speed_kmh = speed_kmh]),
              err |-> NoneStr]

\* Variant: the hold window is looked at before the silence.
process_side_held_first(m, e, t, side, coords) ==
    LET s == SideOf(m, side)
        dt_seconds == t - s.last_fix
        dist_m == ha_distance(s.prev_coords, coords)
        speed_kmh == SpeedKmh(dist_m, dt_seconds)
    IN  IF coords = None THEN [m |-> m, err |-> NoneStr]
        ELSE IF InResyncHold(t, s.resync_until)
        THEN [m |-> SetSide(m, side, [s EXCEPT !.prev_coords = coords, !.last_fix = t,
                                               !.speed_kmh = NoSpeed]),
              err |-> "resync_" \o side]
        ELSE IF SilenceDetected(e, t, s.last_fix)
        THEN [m |-> SetSide(m, side, [prev_coords |-> coords, last_fix |-> t,
                                      speed_kmh |-> NoSpeed,
                                      resync_until |-> t + e.resync_hold_s]),
              err |-> "resync_" \o side]
        ELSE IF s.prev_coords = None \/ s.last_fix = None
        THEN [m |-> SetSide(m, side, [s EXCEPT !.prev_coords = coords, !.last_fix = t,
                                               !.speed_kmh = NoSpeed]),
              err |-> NoneStr]
        ELSE IF dt_seconds <= 0
        THEN [m |-> SetSide(m, side, [s EXCEPT !.prev_coords = coords, !.last_fix = t,
                                               !.speed_kmh = NoSpeed]),
              err |-> NoneStr]
        ELSE IF SpeedRejected(e, speed_kmh)
        THEN [m |-> SetSide(m, side, [s EXCEPT !.prev_coords = coords, !.last_fix = t,
                                               !.speed_kmh = speed_kmh]),
              err |-> "speed_filtered_" \o side]
        ELSE [m |-> SetSide(m, side, [s EXCEPT !.prev_coords = coords, !.last_fix = t,
                                               !.speed_kmh = speed_kmh]),
              err |-> NoneStr]

process_side(m, e, t, side, coords) ==
    LET s == SideOf(m, side)
        dt_seconds == t - s.last_fix
        dist_m == ha_distance(s.prev_coords, coords)
        speed_kmh == SpeedKmh(dist_m, dt_seconds)
    IN  IF coords = None THEN [m |-> m, err |-> NoneStr]
        ELSE IF SilenceDetected(e, t, s.last_fix)
        THEN [m |-> SetSide(m, side, [prev_coords |-> coords, last_fix |-> t,
                                      speed_kmh |-> NoSpeed,
                                      resync_until |-> t + e.resync_hold_s]),
              err |-> "resync_" \o side]
        ELSE IF InResyncHold(t, s.resync_until)
        THEN [m |-> SetSide(m, side, [s EXCEPT !.prev_coords = coords, !.last_fix = t,
                                               !.speed_kmh = NoSpeed]),
              err |-> "resync_" \o side]
        ELSE IF s.prev_coords = None \/ s.last_fix = None
        THEN [m |-> SetSide(m, side, [s EXCEPT !.prev_coords = coords, !.last_fix = t,
                                               !.speed_kmh = NoSpeed]),
              err |-> NoneStr]
        ELSE IF dt_seconds <= 0
        THEN [m |-> SetSide(m, side, [s EXCEPT !.prev_coords = coords, !.last_fix = t,
                                               !.speed_kmh = NoSpeed]),
              err |-> NoneStr]
        ELSE IF SpeedRejected(e, speed_kmh)
        THEN [m |-> SetSide(m, side, [s EXCEPT !.prev_coords = coords, !.last_fix = t,
                                               !.speed_kmh = speed_kmh]),
              err |-> "speed_filtered_" \o side]
        ELSE [m |-> SetSide(m, side, [s EXCEPT !.prev_coords = coords, !.last_fix = t,
                                               !.speed_kmh = speed_kmh]),
              err |-> NoneStr]

\* Variant: the loop visits side b before side a.
_update_movement_b_first(m, e, t, coords_a, coords_b) ==
    LET rb == process_side(m, e, t, "b", coords_b)
        ra == process_side(rb.m, e, t, "a", coords_a)
    IN  IF rb.err # NoneStr
        THEN [m |-> rb.m, err |-> rb.err, res_a |-> "not_called", res_b |-> rb.err]
        ELSE [m |-> ra.m, err |-> ra.err, res_a |-> ra.err, res_b |-> rb.err]

\* The loop over (("a", coords_a), ("b", coords_b)): the first error returns.
\* res_a / res_b record what process_side returned for each side
\* ("not_called" when the loop never reached that side).
_update_movement(m, e, t, coords_a, coords_b) ==
    LET ra == process_side(m, e, t, "a", coords_a)
        rb == process_side(ra.m, e, t, "b", coords_b)
    IN  IF ra.err # NoneStr
        THEN [m |-> ra.m, err |-> ra.err, res_a |-> ra.err, res_b |-> "not_called"]
        ELSE [m |-> rb.m, err |-> rb.err, res_a |-> ra.err, res_b |-> rb.err]

-----------------------------------------------------------------------------
(* async_refresh *)

\* Variant: entry compared strictly.
HysteresisStrictEntry(prev_prox, meters_raw, e) ==
    IF prev_prox THEN meters_raw < e.exit_threshold_m
    ELSE meters_raw < e.entry_threshold_m

\* Variant: one threshold for both directions (no hysteresis).
HysteresisSingleThreshold(prev_prox, meters_raw, e) ==
    meters_raw <= e.entry_threshold_m

\* Variant: exit compared inclusively.
HysteresisInclusiveExit(prev_prox, meters_raw, e) ==
    IF prev_prox THEN meters_raw <= e.exit_threshold_m
    ELSE meters_raw <= e.entry_threshold_m

\* hysteresis uses raw meters
Hysteresis(prev_prox, meters_raw, e) ==
    IF prev_prox THEN meters_raw < e.exit_threshold_m
    ELSE meters_raw <= e.entry_threshold_m

\* One event on hass.bus, with the payload fields the properties read.
Event(name, meters_raw, count, first, reliable, reason) ==
    [ name |-> name, distance_m |-> meters_raw, proximity_update_count |-> count,
      is_first_update |-> first, proximity_reliable |-> reliable,
      unreliable_reason |-> reason ]

\* async_dispatcher_send(self.hass, self.signal): what the listeners find in
\* self.data.proximity and self.data.data_valid when the signal is sent, and
\* the number of events this recompute had put on the bus by then.
Dispatch(proximity, data_valid, fired) ==
    [ proximity |-> proximity, data_valid |-> data_valid, fired |-> fired ]

\* Variant: an invalid cycle forces proximity off.
RejectedDropsProximity(m, error, res_a, res_b, prev_prox) ==
    [ m |-> [m EXCEPT !.data.data_valid = FALSE, !.data.last_error = error,
                      !.data.proximity = FALSE],
      bus |-> << >>, signals |-> << Dispatch(FALSE, FALSE, 0) >>,
      prev_prox |-> prev_prox, res_a |-> res_a, res_b |-> res_b ]

\* Variant: an invalid cycle clears the stale distance and bucket.
RejectedClearsDistance(m, error, res_a, res_b, prev_prox) ==
    [ m |-> [m EXCEPT !.data.data_valid = FALSE, !.data.last_error = error,
                      !.data.distance_m = None, !.data.bucket = NoneStr],
      bus |-> << >>, signals |-> << Dispatch(prev_prox, FALSE, 0) >>,
      prev_prox |-> prev_prox, res_a |-> res_a, res_b |-> res_b ]

\* Variant: an invalid cycle resets the reliability verdict.
RejectedResetsVerdict(m, error, res_a, res_b, prev_prox) ==
    [ m |-> [m EXCEPT !.data.data_valid = FALSE, !.data.last_error = error,
                      !.data.proximity_reliable = TRUE,
                      !.data.unreliable_reason = NoneStr],
      bus |-> << >>, signals |-> << Dispatch(prev_prox, FALSE, 0) >>,
      prev_prox |-> prev_prox, res_a |-> res_a, res_b |-> res_b ]

\* The three early returns: mark invalid, annotate the error, send the signal.
Rejected(m, error, res_a, res_b, prev_prox) ==
    [ m |-> [m EXCEPT !.data.data_valid = FALSE, !.data.last_error = error],
      bus |-> << >>, signals |-> << Dispatch(prev_prox, FALSE, 0) >>,
      prev_prox |-> prev_prox, res_a |-> res_a, res_b |-> res_b ]

\* Variant: an unreliable entry is announced as unreliable whatever the flag.
TransitionEventsIgnoringFlag(e, prox, meters_raw, reliable, reason) ==
    IF prox
    THEN IF ~reliable
         THEN << Event(EVENT_ENTER_UNRELIABLE, meters_raw, 1, FALSE, reliable, reason) >>
         ELSE << Event(EVENT_ENTER, meters_raw, 1, FALSE, reliable, reason),
                 Event(EVENT_PROXIMITY_UPDATE, meters_raw, 1, TRUE, reliable, reason) >>
    ELSE << Event(EVENT_LEAVE, meters_raw, 0, FALSE, reliable, reason) >>

\* Variant: leaving proximity fires nothing.
TransitionEventsSilentLeave(e, prox, meters_raw, reliable, reason) ==
    IF prox
    THEN IF e.require_reliable_proximity /\ ~reliable
         THEN << Event(EVENT_ENTER_UNRELIABLE, meters_raw, 1, FALSE, reliable, reason) >>
         ELSE << Event(EVENT_ENTER, meters_raw, 1, FALSE, reliable, reason),
                 Event(EVENT_PROXIMITY_UPDATE, meters_raw, 1, TRUE, reliable, reason) >>
    ELSE << >>

\* The events of a recompute whose proximity changed to prox.
TransitionEvents(e, prox, meters_raw, reliable, reason) ==
    IF prox
    THEN IF e.require_reliable_proximity /\ ~reliable
         THEN << Event(EVENT_ENTER_UNRELIABLE, meters_raw, 1, FALSE, reliable, reason) >>
         ELSE << Event(EVENT_ENTER, meters_raw, 1, FALSE, reliable, reason),
                 Event(EVENT_PROXIMITY_UPDATE, meters_raw, 1, TRUE, reliable, reason) >>
    ELSE << Event(EVENT_LEAVE, meters_raw, 0, FALSE, reliable, reason) >>

\* Variant: the update event is fired whatever the verdict.
UpdateEventsUngated(e, meters_raw, count, reliable, reason) ==
    << Event(EVENT_PROXIMITY_UPDATE, meters_raw, count, FALSE, reliable, reason) >>

\* The events of a recompute that stays in proximity, count already incremented.
UpdateEvents(e, meters_raw, count, reliable, reason) ==
    IF ~e.require_reliable_proximity \/ reliable
    THEN << Event(EVENT_PROXIMITY_UPDATE, meters_raw, count, FALSE, reliable, reason) >>
    ELSE << >>

\* Variant: the first cycle in proximity is not counted.
EnteringUncounted(m, t) ==
    [m EXCEPT !.data.last_changed = t,
              !.data.proximity_update_count = 0,
              !.data.last_entered = t,
              !._proximity_since = t]

\* proximity changed to true: the stamps and the count of the entering cycle
Entering(m, t) ==
    [m EXCEPT !.data.last_changed = t,
              !.data.proximity_update_count = 1,
              !.data.last_entered = t,
              !._proximity_since = t]

\* Variant: the count survives the leave.
LeavingKeepsCount(m, t) ==
    [m EXCEPT !.data.last_changed = t,
              !.data.last_left = t,
              !._proximity_since = None]

\* Variant: the leave stamps last_entered instead of last_left.
LeavingStampsEntered(m, t) ==
    [m EXCEPT !.data.last_changed = t,
              !.data.proximity_update_count = 0,
              !.data.last_entered = t,
              !._proximity_since = None]

\* proximity changed to false: the stamps and the count of the leaving cycle
Leaving(m, t) ==
    [m EXCEPT !.data.last_changed = t,
              !.data.proximity_update_count = 0,
              !.data.last_left = t,
              !._proximity_since = None]

\* Variant: the count is incremented only when the update event is fired.
StayedInProximityIfReliable(m, e, rel) ==
    IF ~e.require_reliable_proximity \/ rel.reliable
    THEN [m EXCEPT !.data.proximity_update_count = @ + 1]
    ELSE m

\* already in proximity: increment update count (whatever the verdict rel)
StayedInProximity(m, e, rel) ==
    [m EXCEPT !.data.proximity_update_count = @ + 1]

\* Variant: the error of an earlier Invalid recompute is not cleared.
StoreDistanceKeepsError(rel, t, meters_raw) ==
    [rel.m EXCEPT !.data.proximity_reliable = rel.reliable,
                  !.data.unreliable_reason = rel.reason,
                  !._prev_distance_m = meters_raw,
                  !._prev_distance_time = t,
                  !.data.distance_m = meters_raw,
                  !.data.bucket = _bucket(meters_raw),
                  !.data.data_valid = TRUE,
                  !.data.last_valid_updated = t]

\* Lines 695-708: the verdict rel of the reliability check, the distance,
\* the bucket and the Valid marks are stored.
StoreDistance(rel, t, meters_raw) ==
    [rel.m EXCEPT !.data.proximity_reliable = rel.reliable,
                  !.data.unreliable_reason = rel.reason,
                  !._prev_distance_m = meters_raw,
                  !._prev_distance_time = t,
                  !.data.distance_m = meters_raw,
                  !.data.bucket = _bucket(meters_raw),
                  !.data.data_valid = TRUE,
                  !.data.last_error = NoneStr,
                  !.data.last_valid_updated = t]

\* Lines 716-792, the fields: entering, leaving or staying in proximity.
Bookkeeping(m, e, t, rel, prox, prev_prox) ==
    IF prox # prev_prox
    THEN IF prox THEN Entering(m, t) ELSE Leaving(m, t)
    ELSE IF prox
    THEN StayedInProximity(m, e, rel)
    ELSE m

\* Lines 716-792, the events: those of a transition, or the update event
\* carrying the count that m holds after the bookkeeping.
FiredEvents(m, e, rel, meters_raw, prox, prev_prox) ==
    IF prox # prev_prox
    THEN TransitionEvents(e, prox, meters_raw, rel.reliable, rel.reason)
    ELSE IF prox
    THEN UpdateEvents(e, meters_raw, m.data.proximity_update_count,
                      rel.reliable, rel.reason)
    ELSE << >>

\* Lines 794-797: _proximity_since is set when proximity begins and cleared
\* while out of proximity.
ProximitySince(m, t, prox) ==
    IF prox /\ m._proximity_since = None
    THEN [m EXCEPT !._proximity_since = t]
    ELSE IF ~prox THEN [m EXCEPT !._proximity_since = None]
    ELSE m

\* Variant: the signal is sent once the distance is stored, before the
\* proximity bookkeeping and the events.
AcceptedSignalsFirst(m, e, t, coords_a, coords_b, prev_prox) ==
    LET m1 == _record_update(_record_update(m, e, t, "a"), e, t, "b")
        meters_raw == ha_distance(coords_a, coords_b)
        rel == _check_proximity_reliability(m1, e, t, meters_raw)
        m2 == StoreDistance(rel, t, meters_raw)
        prox == Hysteresis(prev_prox, meters_raw, e)
        m3 == Bookkeeping(m2, e, t, rel, prox, prev_prox)
        fired == FiredEvents(m3, e, rel, meters_raw, prox, prev_prox)
        m4 == ProximitySince(m3, t, prox)
    IN  [ m |-> [m4 EXCEPT !.data.proximity = prox],
          bus |-> fired, signals |-> << Dispatch(prev_prox, TRUE, 0) >>,
          prev_prox |-> prev_prox, res_a |-> NoneStr, res_b |-> NoneStr ]

\* Lines 685-800: the recompute once the movement filter accepted both sides.
Accepted(m, e, t, coords_a, coords_b, prev_prox) ==
    LET m1 == _record_update(_record_update(m, e, t, "a"), e, t, "b")
        meters_raw == ha_distance(coords_a, coords_b)
        rel == _check_proximity_reliability(m1, e, t, meters_raw)
        m2 == StoreDistance(rel, t, meters_raw)
        prox == Hysteresis(prev_prox, meters_raw, e)
        m3 == Bookkeeping(m2, e, t, rel, prox, prev_prox)
        fired == FiredEvents(m3, e, rel, meters_raw, prox, prev_prox)
        m4 == ProximitySince(m3, t, prox)
    IN  [ m |-> [m4 EXCEPT !.data.proximity = prox],
          bus |-> fired, signals |-> << Dispatch(prox, TRUE, Len(fired)) >>,
          prev_prox |-> prev_prox, res_a |-> NoneStr, res_b |-> NoneStr ]

\* Variant: an accuracy equal to the ceiling is rejected too.
AccuracyFilteredInclusive(e, acc) ==
    e.max_accuracy_m > 0 /\ acc # None /\ acc >= e.max_accuracy_m

\* acc is not None and acc > float(max_acc_m), under max_acc_m > 0
AccuracyFiltered(e, acc) ==
    e.max_accuracy_m > 0 /\ acc # None /\ acc > e.max_accuracy_m

\* Lines 676-683 and on: the verdict mv of the movement filter rejects the
\* recompute or lets it go on.
AfterMovement(mv, e, t, coords_a, coords_b, prev_prox) ==
    IF mv.err # NoneStr
    THEN Rejected(mv.m, mv.err, mv.res_a, mv.res_b, prev_prox)
    ELSE Accepted(mv.m, e, t, coords_a, coords_b, prev_prox)

\* state_a, state_b: what _coords_and_acc extracts from hass.states for each
\* entity, a record [coords, acc].
async_refresh(m, e, t, state_a, state_b) ==
    LET prev_prox == m.data.proximity
        coords_a == state_a.coords
        coords_b == state_b.coords
        m0 == [m EXCEPT !.debounce_s = e.debounce_seconds,
                        !.data.accuracy_a = state_a.acc,
                        !.data.accuracy_b = state_b.acc]
    IN  IF coords_a = None \/ coords_b = None
        THEN Rejected(m0, "missing_coords", "not_called", "not_called", prev_prox)
        ELSE IF AccuracyFiltered(e, state_a.acc)
        THEN Rejected(m0, "accuracy_filtered_a", "not_called", "not_called", prev_prox)
        ELSE IF AccuracyFiltered(e, state_b.acc)
        THEN Rejected(m0, "accuracy_filtered_b", "not_called", "not_called", prev_prox)
        ELSE AfterMovement(_update_movement(m0, e, t, coords_a, coords_b),
                           e, t, coords_a, coords_b, prev_prox)

-----------------------------------------------------------------------------
(* Configurations and readings of the model *)

\* A slow speed limit, so that the modelled positions exercise the filter.
SLOW_SPEED_KMH == DEFAULT_MAX_SPEED_KMH \div 15

\* The option values a config entry of the model may hold: the default
\* accuracy ceiling, a silence of two clock steps, the default hold, a
\* counting window of one clock step.
EntryOf(exit_th, sp, mu, rr) ==
    [ entry_threshold_m |-> DEFAULT_ENTRY_THRESHOLD_M,
      exit_threshold_m |-> exit_th,
      debounce_seconds |-> DEFAULT_DEBOUNCE_SECONDS,
      max_accuracy_m |-> DEFAULT_MAX_ACCURACY_M,
      resync_silence_s |-> 2 * TickS,
      resync_hold_s |-> DEFAULT_RESYNC_HOLD_S,
      max_speed_kmh |-> sp,
      min_updates_for_proximity |-> mu,
      update_window_s |-> TickS,
      require_reliable_proximity |-> rr ]

Entries ==
    { EntryOf(DEFAULT_EXIT_THRESHOLD_M, SLOW_SPEED_KMH, 2, TRUE),
      EntryOf(DEFAULT_EXIT_THRESHOLD_M, SLOW_SPEED_KMH, 1, FALSE),
      EntryOf(DEFAULT_EXIT_THRESHOLD_M, 0, 2, FALSE),
      EntryOf(DEFAULT_EXIT_THRESHOLD_M, 0, 1, TRUE),
      EntryOf(DEFAULT_ENTRY_THRESHOLD_M, 0, 1, FALSE) }

\* Readings of entity A and of entity B: a position in metres (or None) and
\* an accuracy radius (or None).
Reading(coords, acc) == [coords |-> coords, acc |-> acc]

StatesA ==
    { Reading(None, None), Reading(0, None), Reading(200, None),
      Reading(0, DEFAULT_MAX_ACCURACY_M + 50) }
StatesB ==
    { Reading(None, None), Reading(DEFAULT_ENTRY_THRESHOLD_M, None),
      Reading(DEFAULT_EXIT_THRESHOLD_M - 1, None),
      Reading(DEFAULT_EXIT_THRESHOLD_M, None),
      Reading(DEFAULT_ENTRY_THRESHOLD_M, DEFAULT_MAX_ACCURACY_M + 50) }

NoLocals ==
    [ at |-> None, prev_prox |-> FALSE, coords_a |-> None, coords_b |-> None,
      res_a |-> "not_called", res_b |-> "not_called", signals |-> << >> ]

\* What an observer of the recomputes knows: when the latest recompute that
\* handed both readings to the movement filter ran (filter_at), and when the
\* latest such recompute ran that followed a silence, i.e. came more than
\* resync_silence_s after the one before it (resync_from).
NoWatch == [filter_at |-> None, resync_from |-> None]

Observe(w, e, t, reached) ==
    IF ~reached THEN w
    ELSE [ filter_at |-> t,
           resync_from |-> IF w.filter_at # None /\ t - w.filter_at > e.resync_silence_s
                           THEN t ELSE w.resync_from ]

\* The locals of the call async_refresh(m, e, t, state_a, state_b) = r.
Locals(t, state_a, state_b, r) ==
    [ at |-> t, prev_prox |-> r.prev_prox,
      coords_a |-> state_a.coords, coords_b |-> state_b.coords,
      res_a |-> r.res_a, res_b |-> r.res_b, signals |-> r.signals ]

-----------------------------------------------------------------------------
(* config_flow.py: the values of the config flow and the options flow *)

\* The number selectors deliver floats; the model carries a threshold of the
\* user input and of the stored entry in tenths of a metre.
TENTHS == 10

\* int(x) of a non-negative float x: the fraction is dropped
int(x) == x \div TENTHS

\* The entities whose state carries coordinates
\* (_try_get_coords_from_state is not None).
LocatedEntities == {"person.a", "person.b"}

\* No options stored yet: entry.options is the empty mapping.
NoOptions == [k \in {} |-> 0]

\* hass.config_entries before the first flow: no entry of the pair.
NoConfigEntry == [created |-> FALSE, unique_id |-> {}, data |-> NoOptions,
                  options |-> NoOptions]

\* user_input of a flow step (present = FALSE: user_input is None).
UserInput(a, b, entry_th, exit_th) ==
    [ present |-> TRUE, base_entity |-> a, tracker_entity |-> b,
      entry_threshold_m |-> entry_th, exit_threshold_m |-> exit_th ]
NoInput ==
    [ present |-> FALSE, base_entity |-> "", tracker_entity |-> "",
      entry_threshold_m |-> 0, exit_threshold_m |-> 0 ]

\* The results of a flow step.
ShowForm(errors) == [type |-> "form", errors |-> errors]
CreateEntry == [type |-> "create_entry", errors |-> {}]
Abort == [type |-> "abort", errors |-> {}]

NoFlow == [ config_entry |-> NoConfigEntry, loaded |-> FALSE, steps |-> 0,
            step_id |-> NoneStr, user_input |-> NoInput, result |-> ShowForm({}) ]

-----------------------------------------------------------------------------
(* The event loop and the calls of _bucket, before anything happened *)

\* hass: the timers async_call_later holds (an id and the time it is due),
\* the number of tasks async_create_task holds, the next timer id; and what
\* an observer counts: the state changes reported, the time of the latest,
\* the bursts they form (a state change belongs to the burst of the one
\* before it when it comes less than debounce_s after it), the time the
\* current burst began, the recomputes the timers started and those started
\* without a timer, the forced refreshes and the time of the latest.
NoLoop ==
    [ timers |-> {}, tasks |-> 0, next_id |-> 1,
      triggers |-> 0, last_trigger |-> None, burst_start |-> None,
      bursts |-> 0, debounced |-> 0, immediate |-> 0,
      forced |-> 0, last_forced |-> None ]

\* No call of _bucket yet.
NoProbe ==
    [ distance_m |-> None, bucket |-> NoneStr,
      prev_distance_m |-> None, prev_bucket |-> NoneStr ]

\* No press of the refresh button yet. pc is the await the coroutine is
\* suspended at, calls the service calls made by the latest press.
NoPress == [ pc |-> "idle", calls |-> <<>>, presses |-> 0 ]

\* Python's None where the other values are objects: an attribute value, a
\* state object.
NoneValue == [ type |-> "NoneType" ]

\* No call of _get_accuracy_m yet.
NoExtract == [ called |-> FALSE, state |-> NoneValue, accuracy |-> None ]

\* _BaseAdjacencySensor.__init__: the computed fields of a sensor entity
\* (the bearing is left out: positions lie on a line).
SensorEntity ==
    [ _distance_m |-> None, _bucket |-> NoneStr, _proximity |-> FALSE,
      _last_changed |-> None, _last_entered |-> None, _last_left |-> None ]

\* async_setup_entry of sensor.py adds three entities.
SensorIds == { "distance", "bearing", "bucket" }

\* The platform before any recompute: the readings hass.states holds, who has
\* recomputed on them, and the events those recomputes put on hass.bus.
\* No coordinator has been constructed.
NoCoordinator == [ targets |-> << >> ]

NoPlatform ==
    [ state_a |-> Reading(None, None), state_b |-> Reading(None, None),
      ran |-> {}, sensors |-> [i \in SensorIds |-> SensorEntity],
      bus |-> << >>, rounds |-> 0 ]

-----------------------------------------------------------------------------
(* The state machine *)

Init ==
    /\ now = 0
    /\ entry \in Entries
    /\ mgr = AdjacencyManager
    /\ bus = << >>
    /\ last = NoLocals
    /\ n_refresh = 0
    /\ watch = NoWatch
    /\ twin = AdjacencyManager
    /\ twin_entry = entry
    /\ flow = NoFlow
    /\ loop = NoLoop
    /\ probe = NoProbe
    /\ press = NoPress
    /\ extract = NoExtract
    /\ platform = NoPlatform
    /\ prior = AdjacencyManager
    /\ heard = << >>
    /\ coord = NoCoordinator

\* Time passes.
Tick ==
    /\ now + TickS <= MaxTicks * TickS
    /\ now' = now + TickS
    /\ UNCHANGED <<entry, mgr, bus, last, n_refresh, watch, twin, twin_entry, flow, loop,
                   probe, press, extract, platform, prior, heard, coord>>

\* async_refresh runs on the readings hass.states holds for the two entities.
Refresh ==
    /\ n_refresh < MaxRefresh
    /\ \E state_a \in StatesA, state_b \in StatesB :
          LET r == async_refresh(mgr, entry, now, state_a, state_b)
          IN  /\ mgr' = r.m
              /\ bus' = r.bus
              /\ last' = Locals(now, state_a, state_b, r)
              /\ watch' = Observe(watch, entry, now, r.res_a # "not_called")
    /\ n_refresh' = n_refresh + 1
    /\ UNCHANGED <<now, entry, twin, twin_entry, flow, loop, probe, press, extract,
                   platform, prior, heard, coord>>

Next == Tick \/ Refresh

Spec == Init /\ [][Next]_vars

-----------------------------------------------------------------------------
(* Two managers on the same readings *)

\* Options that differ from e in the reliability settings only.
TwinEntries(e) ==
    { [e EXCEPT !.require_reliable_proximity = ~@],
      [e EXCEPT !.require_reliable_proximity = ~@,
                !.min_updates_for_proximity = DEFAULT_MIN_UPDATES_FOR_PROXIMITY - @,
                !.update_window_s = 2 * @] }

\* The readings of the model that carry no accuracy radius.
PairStatesA == { st \in StatesA : st.acc = None }
PairStatesB == { st \in StatesB : st.acc = None }

InitPair ==
    /\ now = 0
    /\ entry \in Entries
    /\ mgr = AdjacencyManager
    /\ bus = << >>
    /\ last = NoLocals
    /\ n_refresh = 0
    /\ watch = NoWatch
    /\ twin = AdjacencyManager
    /\ twin_entry \in TwinEntries(entry)
    /\ flow = NoFlow
    /\ loop = NoLoop
    /\ probe = NoProbe
    /\ press = NoPress
    /\ extract = NoExtract
    /\ platform = NoPlatform
    /\ prior = AdjacencyManager
    /\ heard = << >>
    /\ coord = NoCoordinator

\* Both managers run async_refresh on the same readings at the same time.
RefreshPair ==
    /\ n_refresh < MaxRefresh
    /\ \E state_a \in PairStatesA, state_b \in PairStatesB :
          LET r == async_refresh(mgr, entry, now, state_a, state_b)
              r2 == async_refresh(twin, twin_entry, now, state_a, state_b)
          IN  /\ mgr' = r.m
              /\ bus' = r.bus
              /\ last' = Locals(now, state_a, state_b, r)
              /\ watch' = Observe(watch, entry, now, r.res_a # "not_called")
              /\ twin' = r2.m
    /\ n_refresh' = n_refresh + 1
    /\ UNCHANGED <<now, entry, twin_entry, flow, loop, probe, press, extract, platform,
                   prior, heard, coord>>

NextPair == Tick \/ RefreshPair

SpecPair == InitPair /\ [][NextPair]_vars

-----------------------------------------------------------------------------
(* config_flow.py: the steps of the flows, and the flows as a state machine *)

\* int(exit_threshold_m) < int(entry_threshold_m)
ExitLtEntry(user_input) ==
    int(user_input.exit_threshold_m) < int(user_input.entry_threshold_m)

\* MemberAdjacencyConfigFlow.async_step_user on the stored entry ce.
async_step_user(ce, user_input) ==
    LET a == user_input.base_entity
        b == user_input.tracker_entity
        same == IF a = b THEN {<<"tracker_entity", "same_entity">>} ELSE {}
        invalid ==
            IF same # {} THEN {}
            ELSE (IF a \notin LocatedEntities
                  THEN {<<"base_entity", "invalid_entity">>} ELSE {})
                 \cup
                 (IF b \notin LocatedEntities
                  THEN {<<"tracker_entity", "invalid_entity">>} ELSE {})
        exit_lt == IF ExitLtEntry(user_input)
                   THEN {<<"exit_threshold_m", "exit_lt_entry">>} ELSE {}
        errors == same \cup invalid \cup exit_lt
        data_to_store ==
            [ base_entity |-> a, tracker_entity |-> b,
              entry_threshold_m |-> user_input.entry_threshold_m,
              exit_threshold_m |-> user_input.exit_threshold_m ]
    IN  IF ~user_input.present
        THEN [config_entry |-> ce, result |-> ShowForm({})]
        ELSE IF errors # {}
        THEN [config_entry |-> ce, result |-> ShowForm(errors)]
        ELSE IF ce.created /\ ce.unique_id = {a, b}
        THEN [config_entry |-> ce, result |-> Abort]
        ELSE [config_entry |-> [created |-> TRUE, unique_id |-> {a, b},
                                data |-> data_to_store, options |-> NoOptions],
              result |-> CreateEntry]

\* Variant: the options flow stores its input without comparing the thresholds.
async_step_init_unvalidated(ce, user_input) ==
    IF ~user_input.present
    THEN [config_entry |-> ce, result |-> ShowForm({})]
    ELSE [config_entry |-> [ce EXCEPT !.options =
                               [ entry_threshold_m |-> user_input.entry_threshold_m,
                                 exit_threshold_m |-> user_input.exit_threshold_m ]],
          result |-> CreateEntry]

\* MemberAdjacencyOptionsFlow.async_step_init on the stored entry ce.
async_step_init(ce, user_input) ==
    LET errors == IF ExitLtEntry(user_input)
                  THEN {<<"exit_threshold_m", "exit_lt_entry">>} ELSE {}
        flat_data ==
            [ entry_threshold_m |-> user_input.entry_threshold_m,
              exit_threshold_m |-> user_input.exit_threshold_m ]
    IN  IF ~user_input.present
        THEN [config_entry |-> ce, result |-> ShowForm({})]
        ELSE IF errors # {}
        THEN [config_entry |-> ce, result |-> ShowForm(errors)]
        ELSE [config_entry |-> [ce EXCEPT !.options = flat_data],
              result |-> CreateEntry]

\* _get: a value from the options first, then from the data
_get(ce, key, default) ==
    IF key \in DOMAIN ce.options THEN ce.options[key]
    ELSE IF key \in DOMAIN ce.data THEN ce.data[key]
    ELSE default

\* The options async_refresh reads from the stored entry (lines 636-647);
\* those the flows of the model do not carry keep one value.
ReadOptions(ce) ==
    [ EntryOf(DEFAULT_EXIT_THRESHOLD_M, 0, 1, FALSE) EXCEPT
        !.entry_threshold_m =
            int(_get(ce, "entry_threshold_m", DEFAULT_ENTRY_THRESHOLD_M * TENTHS)),
        !.exit_threshold_m =
            int(_get(ce, "exit_threshold_m", DEFAULT_EXIT_THRESHOLD_M * TENTHS)) ]

\* At most MaxFlowSteps flow steps are submitted.
MaxFlowSteps == 2

\* The thresholds (entry, exit) a user submits: 500.0 and 700.0 metres,
\* 500.9 and 500.0 metres, 700.0 and 500.0 metres.
ThresholdInputs ==
    { <<DEFAULT_ENTRY_THRESHOLD_M * TENTHS, DEFAULT_EXIT_THRESHOLD_M * TENTHS>>,
      <<DEFAULT_ENTRY_THRESHOLD_M * TENTHS + 9, DEFAULT_ENTRY_THRESHOLD_M * TENTHS>>,
      <<DEFAULT_EXIT_THRESHOLD_M * TENTHS, DEFAULT_ENTRY_THRESHOLD_M * TENTHS>> }

UserInputs ==
    { NoInput } \cup
    { UserInput(a, b, th[1], th[2]) :
        a \in {"person.a", "sensor.x"}, b \in {"person.a", "person.b"},
        th \in ThresholdInputs }

OptionsInputs ==
    { NoInput } \cup { UserInput("", "", th[1], th[2]) : th \in ThresholdInputs }

\* The readings of the entities while the flows are exercised.
FlowStatesA == { Reading(0, None) }
FlowStatesB == { Reading(DEFAULT_ENTRY_THRESHOLD_M, None),
                 Reading(DEFAULT_EXIT_THRESHOLD_M, None) }

\* A user submits the first step of the config flow.
StepUser ==
    /\ flow.steps < MaxFlowSteps
    /\ \E user_input \in UserInputs :
          LET r == async_step_user(flow.config_entry, user_input)
          IN  flow' = [flow EXCEPT !.config_entry = r.config_entry,
                                   !.steps = @ + 1,
                                   !.step_id = "user",
                                   !.user_input = user_input,
                                   !.result = r.result]
    /\ UNCHANGED <<now, entry, mgr, bus, last, n_refresh, watch, twin, twin_entry, loop,
                   probe, press, extract, platform, prior, heard, coord>>

\* A user submits the options flow of the entry.
StepInit ==
    /\ flow.steps < MaxFlowSteps
    /\ flow.config_entry.created
    /\ \E user_input \in OptionsInputs :
          LET r == async_step_init(flow.config_entry, user_input)
          IN  flow' = [flow EXCEPT !.config_entry = r.config_entry,
                                   !.steps = @ + 1,
                                   !.step_id = "init",
                                   !.user_input = user_input,
                                   !.result = r.result]
    /\ UNCHANGED <<now, entry, mgr, bus, last, n_refresh, watch, twin, twin_entry, loop,
                   probe, press, extract, platform, prior, heard, coord>>

\* async_setup_entry: a manager is constructed for the created entry and
\* async_start makes the first recompute.
SetupEntry ==
    /\ flow.config_entry.created /\ ~flow.loaded
    /\ \E state_a \in FlowStatesA, state_b \in FlowStatesB :
          LET e == ReadOptions(flow.config_entry)
              r == async_refresh(AdjacencyManager, e, now, state_a, state_b)
          IN  /\ entry' = e
              /\ mgr' = r.m
              /\ bus' = r.bus
              /\ last' = Locals(now, state_a, state_b, r)
              /\ watch' = Observe(NoWatch, e, now, r.res_a # "not_called")
    /\ flow' = [flow EXCEPT !.loaded = TRUE]
    /\ n_refresh' = n_refresh + 1
    /\ UNCHANGED <<now, twin, twin_entry, loop, probe, press, extract, platform, prior, heard, coord>>

\* async_refresh of the loaded entry: the options are read anew.
RefreshEntry ==
    /\ flow.loaded
    /\ n_refresh < MaxRefresh
    /\ \E state_a \in FlowStatesA, state_b \in FlowStatesB :
          LET e == ReadOptions(flow.config_entry)
              r == async_refresh(mgr, e, now, state_a, state_b)
          IN  /\ entry' = e
              /\ mgr' = r.m
              /\ bus' = r.bus
              /\ last' = Locals(now, state_a, state_b, r)
              /\ watch' = Observe(watch, e, now, r.res_a # "not_called")
    /\ n_refresh' = n_refresh + 1
    /\ UNCHANGED <<now, twin, twin_entry, flow, loop, probe, press, extract, platform,
                   prior, heard, coord>>

InitFlow ==
    /\ now = 0
    /\ entry = ReadOptions(NoConfigEntry)
    /\ mgr = AdjacencyManager
    /\ bus = << >>
    /\ last = NoLocals
    /\ n_refresh = 0
    /\ watch = NoWatch
    /\ twin = AdjacencyManager
    /\ twin_entry = entry
    /\ flow = NoFlow
    /\ loop = NoLoop
    /\ probe = NoProbe
    /\ press = NoPress
    /\ extract = NoExtract
    /\ platform = NoPlatform
    /\ prior = AdjacencyManager
    /\ heard = << >>
    /\ coord = NoCoordinator

NextFlow == Tick \/ StepUser \/ StepInit \/ SetupEntry \/ RefreshEntry

SpecFlow == InitFlow /\ [][NextFlow]_vars

-----------------------------------------------------------------------------
(* _bucket on a range of distances *)

\* The distances tried lie within BucketMargin metres of a bound.
BucketMargin == 2

\* The finite bounds of BUCKETS.
BucketBounds == { BUCKETS[i][1] : i \in 1..(Len(BUCKETS) - 1) }

Distances ==
    UNION { (b - BucketMargin)..(b + BucketMargin) : b \in BucketBounds }
    \cup { 0, 2 * BUCKETS[Len(BUCKETS) - 1][1], BUCKET_CATCH_ALL - 1 }

\* _bucket is called on a distance.
Classify ==
    /\ \E distance_m \in Distances :
          probe' = [ distance_m |-> distance_m, bucket |-> _bucket(distance_m),
                     prev_distance_m |-> probe.distance_m,
                     prev_bucket |-> probe.bucket ]
    /\ UNCHANGED <<now, entry, mgr, bus, last, n_refresh, watch, twin, twin_entry,
                   flow, loop, press, extract, platform, prior, heard, coord>>

InitBucket ==
    /\ now = 0
    /\ entry = EntryOf(DEFAULT_EXIT_THRESHOLD_M, 0, 1, FALSE)
    /\ mgr = AdjacencyManager
    /\ bus = << >>
    /\ last = NoLocals
    /\ n_refresh = 0
    /\ watch = NoWatch
    /\ twin = AdjacencyManager
    /\ twin_entry = entry
    /\ flow = NoFlow
    /\ loop = NoLoop
    /\ probe = NoProbe
    /\ press = NoPress
    /\ extract = NoExtract
    /\ platform = NoPlatform
    /\ prior = AdjacencyManager
    /\ heard = << >>
    /\ coord = NoCoordinator

NextBucket == Classify

SpecBucket == InitBucket /\ [][NextBucket]_vars

-----------------------------------------------------------------------------
(* Recomputes on readings with accuracy radii around the ceiling *)

\* The default options, and the same with the accuracy filter disabled.
AccuracyEntries ==
    { EntryOf(DEFAULT_EXIT_THRESHOLD_M, 0, 1, FALSE),
      [EntryOf(DEFAULT_EXIT_THRESHOLD_M, 0, 1, FALSE) EXCEPT !.max_accuracy_m = 0] }

\* No radius, the ceiling itself, one metre above it.
AccuracyRadii == { None, DEFAULT_MAX_ACCURACY_M, DEFAULT_MAX_ACCURACY_M + 1 }

AccuracyStatesA == { Reading(0, acc) : acc \in AccuracyRadii }
AccuracyStatesB ==
    { Reading(DEFAULT_ENTRY_THRESHOLD_M, acc) : acc \in AccuracyRadii }
    \cup { Reading(None, DEFAULT_MAX_ACCURACY_M + 1) }

InitAccuracy ==
    /\ now = 0
    /\ entry \in AccuracyEntries
    /\ mgr = AdjacencyManager
    /\ bus = << >>
    /\ last = NoLocals
    /\ n_refresh = 0
    /\ watch = NoWatch
    /\ twin = AdjacencyManager
    /\ twin_entry = entry
    /\ flow = NoFlow
    /\ loop = NoLoop
    /\ probe = NoProbe
    /\ press = NoPress
    /\ extract = NoExtract
    /\ platform = NoPlatform
    /\ prior = AdjacencyManager
    /\ heard = << >>
    /\ coord = NoCoordinator

\* async_refresh runs on the readings hass.states holds for the two entities.
RefreshAccuracy ==
    /\ n_refresh < MaxRefresh
    /\ \E state_a \in AccuracyStatesA, state_b \in AccuracyStatesB :
          LET r == async_refresh(mgr, entry, now, state_a, state_b)
          IN  /\ mgr' = r.m
              /\ bus' = r.bus
              /\ last' = Locals(now, state_a, state_b, r)
              /\ watch' = Observe(watch, entry, now, r.res_a # "not_called")
    /\ n_refresh' = n_refresh + 1
    /\ UNCHANGED <<now, entry, twin, twin_entry, flow, loop, probe, press, extract,
                   platform, prior, heard, coord>>

NextAccuracy == Tick \/ RefreshAccuracy

SpecAccuracy == InitAccuracy /\ [][NextAccuracy]_vars

-----------------------------------------------------------------------------
(* The lifecycle: async_start, request_refresh and the debounce timer *)

\* The clock of this part advances second by second up to MaxSeconds, and at
\* most MaxTriggers state changes are reported.
MaxSeconds == 6
MaxTriggers == 3

\* The default options, and the same without debounce.
DebounceEntries ==
    { EntryOf(DEFAULT_EXIT_THRESHOLD_M, 0, 1, FALSE),
      [EntryOf(DEFAULT_EXIT_THRESHOLD_M, 0, 1, FALSE) EXCEPT !.debounce_seconds = 0] }

\* cancel(): the timer of the handle leaves the loop
CancelTimer(timers, handle) == { tm \in timers : tm.id # handle }

\* Variant: a pending timer is not cancelled before the next one is armed.
request_refresh_uncancelled(m, lp, t) ==
    IF m.debounce_s <= 0
    THEN [ m |-> [m EXCEPT !._cancel_debounce = None],
           loop |-> [lp EXCEPT !.tasks = @ + 1] ]
    ELSE [ m |-> [m EXCEPT !._cancel_debounce = lp.next_id],
           loop |-> [lp EXCEPT !.timers = @ \cup
                                   {[id |-> lp.next_id, due |-> t + m.debounce_s]},
                               !.next_id = @ + 1] ]

\* request_refresh at time t: cancel the pending timer, then either create
\* the task at once or arm a timer of debounce_s seconds.
request_refresh(m, lp, t) ==
    LET timers == IF m._cancel_debounce # None
                  THEN CancelTimer(lp.timers, m._cancel_debounce)
                  ELSE lp.timers
    IN  IF m.debounce_s <= 0
        THEN [ m |-> [m EXCEPT !._cancel_debounce = None],
               loop |-> [lp EXCEPT !.timers = timers, !.tasks = @ + 1] ]
        ELSE [ m |-> [m EXCEPT !._cancel_debounce = lp.next_id],
               loop |-> [lp EXCEPT !.timers = timers \cup
                                       {[id |-> lp.next_id, due |-> t + m.debounce_s]},
                                   !.next_id = @ + 1] ]

\* A timer of the loop is due.
TimerDue == \E tm \in loop.timers : tm.due <= now

InitDebounce ==
    /\ now = 0
    /\ entry \in DebounceEntries
    /\ mgr = [AdjacencyManager EXCEPT !.debounce_s = entry.debounce_seconds]
    /\ bus = << >>
    /\ last = NoLocals
    /\ n_refresh = 0
    /\ watch = NoWatch
    /\ twin = AdjacencyManager
    /\ twin_entry = entry
    /\ flow = NoFlow
    /\ loop = NoLoop
    /\ probe = NoProbe
    /\ press = NoPress
    /\ extract = NoExtract
    /\ platform = NoPlatform
    /\ prior = AdjacencyManager
    /\ heard = << >>
    /\ coord = NoCoordinator

\* async_start: the first recompute, then the subscription to the state
\* changes of the two entities.
Start ==
    /\ ~mgr._unsub /\ n_refresh = 0
    /\ \E state_a \in FlowStatesA, state_b \in FlowStatesB :
          LET r == async_refresh(mgr, entry, now, state_a, state_b)
          IN  /\ mgr' = [r.m EXCEPT !._unsub = TRUE]
              /\ bus' = r.bus
              /\ last' = Locals(now, state_a, state_b, r)
              /\ watch' = Observe(watch, entry, now, r.res_a # "not_called")
    /\ n_refresh' = n_refresh + 1
    /\ UNCHANGED <<now, entry, twin, twin_entry, flow, loop, probe, press, extract,
                   platform, prior, heard, coord>>

\* _handle: a state change of a tracked entity is reported (a timer due at
\* the same instant has run before it).
StateChanged ==
    /\ mgr._unsub
    /\ loop.triggers < MaxTriggers
    /\ ~TimerDue
    /\ LET r == request_refresh(mgr, loop, now)
           continues == /\ mgr.debounce_s > 0 /\ loop.last_trigger # None
                        /\ now - loop.last_trigger < mgr.debounce_s
       IN  /\ mgr' = r.m
           /\ loop' = [r.loop EXCEPT
                          !.triggers = @ + 1,
                          !.last_trigger = now,
                          !.burst_start = IF continues THEN @ ELSE now,
                          !.bursts = IF continues THEN @ ELSE @ + 1,
                          !.immediate = @ + (r.loop.tasks - loop.tasks)]
    /\ UNCHANGED <<now, entry, bus, last, n_refresh, watch, twin, twin_entry,
                   flow, probe, press, extract, platform, prior, heard, coord>>

\* _later: the debounce timer runs and creates the task of the recompute.
TimerFires ==
    /\ \E tm \in loop.timers :
          /\ tm.due <= now
          /\ loop' = [loop EXCEPT !.timers = @ \ {tm}, !.tasks = @ + 1,
                                  !.debounced = @ + 1]
    /\ mgr' = [mgr EXCEPT !._cancel_debounce = None]
    /\ UNCHANGED <<now, entry, bus, last, n_refresh, watch, twin, twin_entry,
                   flow, probe, press, extract, platform, prior, heard, coord>>

\* A task created for async_refresh runs.
RunTask ==
    /\ loop.tasks > 0
    /\ \E state_a \in FlowStatesA, state_b \in FlowStatesB :
          LET r == async_refresh(mgr, entry, now, state_a, state_b)
          IN  /\ mgr' = r.m
              /\ bus' = r.bus
              /\ last' = Locals(now, state_a, state_b, r)
              /\ watch' = Observe(watch, entry, now, r.res_a # "not_called")
    /\ loop' = [loop EXCEPT !.tasks = @ - 1]
    /\ n_refresh' = n_refresh + 1
    /\ UNCHANGED <<now, entry, twin, twin_entry, flow, probe, press, extract, platform,
                   prior, heard, coord>>

\* A second passes: no timer is due and no task is waiting.
Second ==
    /\ now < MaxSeconds
    /\ ~TimerDue /\ loop.tasks = 0
    /\ now' = now + 1
    /\ UNCHANGED <<entry, mgr, bus, last, n_refresh, watch, twin, twin_entry,
                   flow, loop, probe, press, extract, platform, prior, heard, coord>>

NextDebounce == Start \/ StateChanged \/ TimerFires \/ RunTask \/ Second

SpecDebounce == InitDebounce /\ [][NextDebounce]_vars

-----------------------------------------------------------------------------
(* Forced refreshes and async_stop *)

\* At most MaxForced forced refreshes are made.
MaxForced == 1

\* Variant: the forced refresh leaves the pending timer in the loop.
async_force_refresh_uncancelled(m, lp) ==
    [ m |-> m, loop |-> lp ]

\* async_force_refresh up to its await: cancel the pending timer and drop
\* the handle. The manager and the loop on which async_refresh then runs.
async_force_refresh(m, lp) ==
    LET timers == IF m._cancel_debounce # None
                  THEN CancelTimer(lp.timers, m._cancel_debounce)
                  ELSE lp.timers
    IN  [ m |-> [m EXCEPT !._cancel_debounce = None],
          loop |-> [lp EXCEPT !.timers = timers] ]

\* Variant: async_stop unsubscribes and leaves the pending timer in the loop.
async_stop_keeps_timer(m, lp) ==
    [ m |-> [m EXCEPT !._unsub = FALSE], loop |-> lp ]

\* async_stop: unsubscribe, cancel the pending timer.
async_stop(m, lp) ==
    LET timers == IF m._cancel_debounce # None
                  THEN CancelTimer(lp.timers, m._cancel_debounce)
                  ELSE lp.timers
    IN  [ m |-> [m EXCEPT !._unsub = FALSE, !._cancel_debounce = None],
          loop |-> [lp EXCEPT !.timers = timers] ]

\* The reading of entity B at a forced refresh.
ForcedStatesB == { Reading(DEFAULT_ENTRY_THRESHOLD_M, None) }

\* The refresh button or a caller of async_force_refresh, while the entry is
\* loaded.
ForceRefresh ==
    /\ mgr._unsub
    /\ loop.forced < MaxForced
    /\ \E state_a \in FlowStatesA, state_b \in ForcedStatesB :
          LET f == async_force_refresh(mgr, loop)
              r == async_refresh(f.m, entry, now, state_a, state_b)
          IN  /\ mgr' = r.m
              /\ loop' = [f.loop EXCEPT !.forced = @ + 1, !.last_forced = now]
              /\ bus' = r.bus
              /\ last' = Locals(now, state_a, state_b, r)
              /\ watch' = Observe(watch, entry, now, r.res_a # "not_called")
    /\ n_refresh' = n_refresh + 1
    /\ UNCHANGED <<now, entry, twin, twin_entry, flow, probe, press, extract, platform,
                   prior, heard, coord>>

\* async_unload_entry: the platforms are unloaded and the manager is stopped.
Stop ==
    /\ mgr._unsub
    /\ LET st == async_stop(mgr, loop)
       IN  /\ mgr' = st.m
           /\ loop' = st.loop
    /\ UNCHANGED <<now, entry, bus, last, n_refresh, watch, twin, twin_entry,
                   flow, probe, press, extract, platform, prior, heard, coord>>

NextForce ==
    Start \/ StateChanged \/ TimerFires \/ RunTask \/ Second \/ ForceRefresh

SpecForce == InitDebounce /\ [][NextForce]_vars

NextStop ==
    Start \/ StateChanged \/ TimerFires \/ RunTask \/ Second \/ Stop

SpecStop == InitDebounce /\ [][NextStop]_vars

-----------------------------------------------------------------------------
(* The refresh button *)

\* At most MaxPresses presses of the button are made.
MaxPresses == 1

\* What async_request_source_update finds for one entity: whether it is a
\* zone, whether its device has a mobile_app identifier, which services are
\* registered and whether their calls raise.
SourceEnv(zone, mobile_id, has_notify, notify_raises, has_update, update_raises) ==
    [ zone |-> zone, mobile_id |-> mobile_id, has_notify |-> has_notify,
      notify_raises |-> notify_raises, has_update |-> has_update,
      update_raises |-> update_raises ]

SourceEnvs ==
    { SourceEnv(TRUE, FALSE, FALSE, FALSE, TRUE, FALSE),
      SourceEnv(FALSE, TRUE, TRUE, TRUE, TRUE, FALSE),
      SourceEnv(FALSE, TRUE, TRUE, FALSE, TRUE, TRUE),
      SourceEnv(FALSE, FALSE, FALSE, FALSE, FALSE, FALSE) }

\* hass.services.async_call(domain, service, ..., blocking=True) for a side.
ServiceCall(service, side, raises) ==
    [ service |-> service, side |-> side, raised |-> raises ]

\* Variant: the exception of a failing service call leaves the coroutine.
async_request_source_update_propagating(side, x) ==
    IF x.zone THEN [ calls |-> <<>>, raised |-> FALSE ]
    ELSE LET notify == IF x.mobile_id /\ x.has_notify
                       THEN <<ServiceCall("notify", side, x.notify_raises)>>
                       ELSE <<>>
             update == IF x.has_update
                       THEN <<ServiceCall("update_entity", side, x.update_raises)>>
                       ELSE <<>>
         IN  IF notify # <<>> /\ x.notify_raises
             THEN [ calls |-> notify, raised |-> TRUE ]
             ELSE [ calls |-> notify \o update,
                    raised |-> update # <<>> /\ x.update_raises ]

\* async_request_source_update: nothing for a zone; the notify call when the
\* device has a mobile_app identifier and the service exists, then the
\* update_entity call when that service exists; both inside try/except.
async_request_source_update(side, x) ==
    IF x.zone THEN [ calls |-> <<>>, raised |-> FALSE ]
    ELSE LET notify == IF x.mobile_id /\ x.has_notify
                       THEN <<ServiceCall("notify", side, x.notify_raises)>>
                       ELSE <<>>
             update == IF x.has_update
                       THEN <<ServiceCall("update_entity", side, x.update_raises)>>
                       ELSE <<>>
         IN  [ calls |-> notify \o update, raised |-> FALSE ]

\* async_press, async_force_refresh_with_source_update up to its first await:
\* the source update of entity_a.
PressA ==
    /\ mgr._unsub
    /\ press.pc = "idle"
    /\ press.presses < MaxPresses
    /\ \E x \in SourceEnvs :
          LET r == async_request_source_update("a", x)
          IN  press' = [press EXCEPT !.pc = IF r.raised THEN "raised" ELSE "b",
                                     !.calls = r.calls]
    /\ UNCHANGED <<now, entry, mgr, bus, last, n_refresh, watch, twin, twin_entry,
                   flow, loop, probe, extract, platform, prior, heard, coord>>

\* The source update of entity_b.
PressB ==
    /\ press.pc = "b"
    /\ \E x \in SourceEnvs :
          LET r == async_request_source_update("b", x)
          IN  press' = [press EXCEPT
                            !.pc = IF r.raised THEN "raised" ELSE "refresh",
                            !.calls = @ \o r.calls]
    /\ UNCHANGED <<now, entry, mgr, bus, last, n_refresh, watch, twin, twin_entry,
                   flow, loop, probe, extract, platform, prior, heard, coord>>

\* await self.async_force_refresh(), the last statement of the press.
PressRefresh ==
    /\ press.pc = "refresh"
    /\ \E state_a \in FlowStatesA, state_b \in FlowStatesB :
          LET f == async_force_refresh(mgr, loop)
              r == async_refresh(f.m, entry, now, state_a, state_b)
          IN  /\ mgr' = r.m
              /\ loop' = [f.loop EXCEPT !.forced = @ + 1, !.last_forced = now]
              /\ bus' = r.bus
              /\ last' = Locals(now, state_a, state_b, r)
              /\ watch' = Observe(watch, entry, now, r.res_a # "not_called")
    /\ n_refresh' = n_refresh + 1
    /\ press' = [press EXCEPT !.pc = "idle", !.presses = @ + 1]
    /\ UNCHANGED <<now, entry, twin, twin_entry, flow, probe, extract, platform, prior, heard, coord>>

NextPress == Start \/ Second \/ PressA \/ PressB \/ PressRefresh

SpecPress == InitDebounce /\ [][NextPress]_vars

-----------------------------------------------------------------------------
(* _get_accuracy_m on the attributes of a state object *)

\* Attribute values: None, a number, a string (a sequence of characters), a
\* list.
Number(x) == [ type |-> "float", value |-> x ]
String(chars) == [ type |-> "str", chars |-> chars ]
List == [ type |-> "list" ]

Digits == "0" :> 0 @@ "1" :> 1 @@ "2" :> 2 @@ "3" :> 3 @@ "4" :> 4 @@
          "5" :> 5 @@ "6" :> 6 @@ "7" :> 7 @@ "8" :> 8 @@ "9" :> 9

\* The number a string of decimal digits denotes; None for any other string.
RECURSIVE ParseDigits(_, _)
ParseDigits(chars, value) ==
    IF chars = << >> THEN value
    ELSE IF Head(chars) \notin DOMAIN Digits THEN None
    ELSE ParseDigits(Tail(chars), 10 * value + Digits[Head(chars)])

\* float(v): the number, or the TypeError / ValueError it raises.
float(v) ==
    IF v.type = "float" THEN [ raised |-> FALSE, value |-> v.value ]
    ELSE IF v.type = "str" /\ v.chars # << >> /\ ParseDigits(v.chars, 0) # None
    THEN [ raised |-> FALSE, value |-> ParseDigits(v.chars, 0) ]
    ELSE [ raised |-> TRUE, value |-> None ]

\* for k in ("gps_accuracy", "accuracy", "horizontal_accuracy")
AccuracyKeys == << "gps_accuracy", "accuracy", "horizontal_accuracy" >>

\* Variant of the loop: a value that float() rejects ends the search.
RECURSIVE AccuracyFromFirstPresent(_, _)
AccuracyFromFirstPresent(attrs, i) ==
    IF i > Len(AccuracyKeys) THEN None
    ELSE LET v == attrs[AccuracyKeys[i]]
         IN  IF v = NoneValue THEN AccuracyFromFirstPresent(attrs, i + 1)
             ELSE float(v).value

\* The loop: None is skipped, and so is a value that float() rejects.
RECURSIVE AccuracyFrom(_, _)
AccuracyFrom(attrs, i) ==
    IF i > Len(AccuracyKeys) THEN None
    ELSE LET v == attrs[AccuracyKeys[i]]
         IN  IF v = NoneValue \/ float(v).raised THEN AccuracyFrom(attrs, i + 1)
             ELSE float(v).value

\* Variant: the first attribute that is not None decides.
_get_accuracy_m_first_present(state) ==
    IF state = NoneValue THEN None
    ELSE AccuracyFromFirstPresent(state.attributes, 1)

_get_accuracy_m(state) ==
    IF state = NoneValue THEN None
    ELSE AccuracyFrom(state.attributes, 1)

AttributeValues ==
    { NoneValue, Number(15), Number(DEFAULT_MAX_ACCURACY_M + 1),
      String(<<"2", "5">>), String(<<"u", "n", "k", "n", "o", "w", "n">>), List }

\* hass.states.get(entity_id): None or a state with its attributes.
StateObjects ==
    { NoneValue } \cup
    { [ attributes |-> [ gps_accuracy |-> g, accuracy |-> a,
                         horizontal_accuracy |-> h ] ] :
      g \in AttributeValues, a \in AttributeValues, h \in AttributeValues }

InitExtract ==
    /\ now = 0
    /\ entry = EntryOf(DEFAULT_EXIT_THRESHOLD_M, 0, 1, FALSE)
    /\ mgr = AdjacencyManager
    /\ bus = << >>
    /\ last = NoLocals
    /\ n_refresh = 0
    /\ watch = NoWatch
    /\ twin = AdjacencyManager
    /\ twin_entry = entry
    /\ flow = NoFlow
    /\ loop = NoLoop
    /\ probe = NoProbe
    /\ press = NoPress
    /\ extract = NoExtract
    /\ platform = NoPlatform
    /\ prior = AdjacencyManager
    /\ heard = << >>
    /\ coord = NoCoordinator

\* _coords_and_acc reads the accuracy of one state object.
GetAccuracy ==
    /\ \E state \in StateObjects :
          extract' = [ called |-> TRUE, state |-> state,
                       accuracy |-> _get_accuracy_m(state) ]
    /\ UNCHANGED <<now, entry, mgr, bus, last, n_refresh, watch, twin, twin_entry,
                   flow, loop, probe, press, platform, prior, heard, coord>>

NextExtract == GetAccuracy

SpecExtract == InitExtract /\ [][NextExtract]_vars

-----------------------------------------------------------------------------
(* sensor.py: the sensor entities next to the manager *)

\* At most MaxRounds state changes of the tracked entities.
MaxRounds == 2

\* _coords_if_ok: the coordinates unless missing or too inaccurate.
_coords_if_ok(e, state) ==
    IF state.coords = None THEN None
    ELSE IF e.max_accuracy_m > 0 /\ state.acc # None /\ state.acc > e.max_accuracy_m
    THEN None
    ELSE state.coords

\* An event a sensor entity fires: name and distance_m of the payload.
SensorEvent(name, meters) == [ name |-> name, distance_m |-> meters ]

\* _BaseAdjacencySensor._async_recompute; the bucket is computed as by the
\* manager's _bucket.
_async_recompute(s, e, t, state_a, state_b) ==
    LET a == _coords_if_ok(e, state_a)
        b == _coords_if_ok(e, state_b)
        prev_prox == s._proximity
    IN  IF a = None \/ b = None
        THEN [ s |-> [s EXCEPT !._distance_m = None, !._bucket = NoneStr],
               bus |-> << >> ]
        ELSE LET meters == ha_distance(a, b)
                 s1 == [s EXCEPT !._distance_m = meters, !._bucket = _bucket(meters)]
                 prox == IF prev_prox THEN meters < e.exit_threshold_m
                         ELSE meters <= e.entry_threshold_m
                 s2 == IF prox = prev_prox THEN s1
                       ELSE IF prox
                       THEN [s1 EXCEPT !._last_changed = t, !._last_entered = t]
                       ELSE [s1 EXCEPT !._last_changed = t, !._last_left = t]
                 fired == IF prox = prev_prox THEN << >>
                          ELSE IF prox THEN << SensorEvent(EVENT_ENTER, meters) >>
                          ELSE << SensorEvent(EVENT_LEAVE, meters) >>
             IN  [ s |-> [s2 EXCEPT !._proximity = prox], bus |-> fired ]

\* An event on hass.bus and the entity that fired it.
Fired(source, fired) ==
    [ i \in 1..Len(fired) |-> [ source |-> source, name |-> fired[i].name ] ]

PlatformEntries ==
    { EntryOf(DEFAULT_EXIT_THRESHOLD_M, 0, 2, TRUE),
      EntryOf(DEFAULT_EXIT_THRESHOLD_M, 0, 1, FALSE) }

PlatformStatesA == { Reading(0, None) }
PlatformStatesB ==
    { Reading(None, None), Reading(DEFAULT_ENTRY_THRESHOLD_M, None),
      Reading(DEFAULT_EXIT_THRESHOLD_M, None) }

InitPlatform ==
    /\ now = 0
    /\ entry \in PlatformEntries
    /\ mgr = AdjacencyManager
    /\ bus = << >>
    /\ last = NoLocals
    /\ n_refresh = 0
    /\ watch = NoWatch
    /\ twin = AdjacencyManager
    /\ twin_entry = entry
    /\ flow = NoFlow
    /\ loop = NoLoop
    /\ probe = NoProbe
    /\ press = NoPress
    /\ extract = NoExtract
    /\ \E state_a \in PlatformStatesA, state_b \in PlatformStatesB :
          platform = [NoPlatform EXCEPT !.state_a = state_a, !.state_b = state_b]
    /\ prior = AdjacencyManager
    /\ heard = << >>
    /\ coord = NoCoordinator

\* The tracked entities report new states; the manager and the sensors will
\* each recompute on them.
StateWritten ==
    /\ platform.rounds < MaxRounds
    /\ now' = now + TickS
    /\ \E state_a \in PlatformStatesA, state_b \in PlatformStatesB :
          platform' = [platform EXCEPT !.state_a = state_a, !.state_b = state_b,
                                       !.ran = {}, !.bus = << >>,
                                       !.rounds = @ + 1]
    /\ UNCHANGED <<entry, mgr, bus, last, n_refresh, watch, twin, twin_entry,
                   flow, loop, probe, press, extract, prior, heard, coord>>

\* The manager's async_refresh on the current states.
ManagerRecompute ==
    /\ "manager" \notin platform.ran
    /\ LET r == async_refresh(mgr, entry, now, platform.state_a, platform.state_b)
       IN  /\ mgr' = r.m
           /\ bus' = r.bus
           /\ last' = Locals(now, platform.state_a, platform.state_b, r)
           /\ watch' = Observe(watch, entry, now, r.res_a # "not_called")
           /\ platform' = [platform EXCEPT !.ran = @ \cup {"manager"},
                                           !.bus = @ \o Fired("manager", r.bus)]
    /\ n_refresh' = n_refresh + 1
    /\ UNCHANGED <<now, entry, twin, twin_entry, flow, loop, probe, press,
                   extract, prior, heard, coord>>

\* One sensor entity's _async_recompute on the current states.
SensorRecompute ==
    /\ \E i \in SensorIds \ platform.ran :
          LET r == _async_recompute(platform.sensors[i], entry, now,
                                    platform.state_a, platform.state_b)
          IN  platform' = [platform EXCEPT !.ran = @ \cup {i},
                                           !.sensors[i] = r.s,
                                           !.bus = @ \o Fired("sensor", r.bus)]
    /\ UNCHANGED <<now, entry, mgr, bus, last, n_refresh, watch, twin, twin_entry,
                   flow, loop, probe, press, extract, prior, heard, coord>>

NextPlatform == StateWritten \/ ManagerRecompute \/ SensorRecompute

SpecPlatform == InitPlatform /\ [][NextPlatform]_vars

-----------------------------------------------------------------------------
(* Recomputes through a silence and the resync-hold windows that follow *)

\* At most MaxHoldRefresh calls of async_refresh are made.
MaxHoldRefresh == 4

\* A silence of more than one tick opens a hold of one tick, or one of
\* three ticks, which a further silence can interrupt.  One entry asks for
\* two updates in the window.
HoldEntries ==
    { [EntryOf(DEFAULT_EXIT_THRESHOLD_M, sp, 1, FALSE)
          EXCEPT !.resync_silence_s = TickS] : sp \in {0, SLOW_SPEED_KMH} }
    \cup { [EntryOf(DEFAULT_EXIT_THRESHOLD_M, 0, 1, FALSE)
               EXCEPT !.resync_silence_s = TickS,
                      !.resync_hold_s = 3 * DEFAULT_RESYNC_HOLD_S],
            [EntryOf(DEFAULT_EXIT_THRESHOLD_M, SLOW_SPEED_KMH, 2, TRUE)
               EXCEPT !.resync_silence_s = TickS] }

InitHold ==
    /\ now = 0
    /\ entry \in HoldEntries
    /\ mgr = AdjacencyManager
    /\ bus = << >>
    /\ last = NoLocals
    /\ n_refresh = 0
    /\ watch = NoWatch
    /\ twin = AdjacencyManager
    /\ twin_entry = entry
    /\ flow = NoFlow
    /\ loop = NoLoop
    /\ probe = NoProbe
    /\ press = NoPress
    /\ extract = NoExtract
    /\ platform = NoPlatform
    /\ prior = AdjacencyManager
    /\ heard = << >>
    /\ coord = NoCoordinator

\* The readings of the entities: A stays, B is at the entry threshold, at the
\* exit threshold or far out.
HoldStatesA == FlowStatesA
HoldStatesB ==
    FlowStatesB
    \cup { Reading(DEFAULT_EXIT_THRESHOLD_M + DEFAULT_ENTRY_THRESHOLD_M, None) }

RefreshHold ==
    /\ n_refresh < MaxHoldRefresh
    /\ \E state_a \in HoldStatesA, state_b \in HoldStatesB :
          LET r == async_refresh(mgr, entry, now, state_a, state_b)
          IN  /\ mgr' = r.m
              /\ bus' = r.bus
              /\ last' = Locals(now, state_a, state_b, r)
              /\ watch' = Observe(watch, entry, now, r.res_a # "not_called")
    /\ prior' = mgr
    /\ n_refresh' = n_refresh + 1
    /\ UNCHANGED <<now, entry, twin, twin_entry, flow, loop, probe, press,
                   extract, platform, heard, coord>>

NextHold == Tick \/ RefreshHold

SpecHold == InitHold /\ [][NextHold]_vars

-----------------------------------------------------------------------------
(* Recomputes that keep being triggered on stationary readings *)

\* The clock has no end, and a recompute reads the stored times only through
\* their distance to now.  This specification keeps now at LiveNow and lets
\* the time that passes between two recomputes move every stored time into
\* the past; a time that has fallen back to 0 lies further in the past than
\* any span the options of LiveEntries compare it with.
LiveNow == 4 * TickS

\* The times between two recomputes.
LiveGaps == { TickS, 2 * TickS }

\* The recomputes are counted in n_refresh up to MaxLiveCount, the count
\* then starts again at 1 (the recomputes go on without end).
MaxLiveCount == 2

\* Options the config flow accepts: resync_silence_s in 0..86400 by steps of
\* 60, resync_hold_s in 0..600 by steps of 5 (config_flow.py:262-267).
LiveEntries ==
    { [EntryOf(DEFAULT_EXIT_THRESHOLD_M, sp, 1, FALSE)
          EXCEPT !.resync_silence_s = silence, !.resync_hold_s = hold] :
        sp \in {0, SLOW_SPEED_KMH}, silence \in {0, TickS, 2 * TickS},
        hold \in {0, DEFAULT_RESYNC_HOLD_S} }

\* A stored time after dt more seconds have passed.
Aged(x, dt) == IF x = None THEN None ELSE IF x < dt THEN 0 ELSE x - dt

RECURSIVE AgedHistory(_, _)
AgedHistory(history, dt) ==
    IF history = << >> THEN << >>
    ELSE << Aged(Head(history), dt) >> \o AgedHistory(Tail(history), dt)

\* The manager after dt more seconds have passed.
Elapsed(m, dt) ==
    [m EXCEPT !._proximity_since = Aged(@, dt),
              !.a_last_fix = Aged(@, dt),
              !.b_last_fix = Aged(@, dt),
              !.a_resync_until = Aged(@, dt),
              !.b_resync_until = Aged(@, dt),
              !.a_update_history = AgedHistory(@, dt),
              !.b_update_history = AgedHistory(@, dt),
              !._prev_distance_time = Aged(@, dt),
              !.data.last_valid_updated = Aged(@, dt),
              !.data.last_changed = Aged(@, dt),
              !.data.last_entered = Aged(@, dt),
              !.data.last_left = Aged(@, dt)]

\* Accurate readings of two subjects that do not move.  They stay further
\* apart than the entry threshold: in proximity proximity_update_count would
\* grow with every recompute.
LiveStatesA == { Reading(0, None), Reading(100, DEFAULT_MAX_ACCURACY_M) }
LiveStatesB == { Reading(DEFAULT_EXIT_THRESHOLD_M + 200, None),
                 Reading(DEFAULT_EXIT_THRESHOLD_M, DEFAULT_MAX_ACCURACY_M) }

InitLive ==
    /\ now = LiveNow
    /\ entry \in LiveEntries
    /\ mgr = AdjacencyManager
    /\ bus = << >>
    /\ last = NoLocals
    /\ n_refresh = 0
    /\ watch = NoWatch
    /\ twin = AdjacencyManager
    /\ twin_entry = entry
    /\ flow = NoFlow
    /\ loop = NoLoop
    /\ probe = NoProbe
    /\ press = NoPress
    /\ extract = NoExtract
    /\ platform = NoPlatform
    /\ prior = AdjacencyManager
    /\ heard = << >>
    /\ coord = NoCoordinator

\* request_refresh with debounce_s = 0: a state change of an entity, or the
\* refresh button, creates the task that runs async_refresh.
TriggerLive ==
    /\ loop.tasks = 0
    /\ loop' = [loop EXCEPT !.tasks = 1]
    /\ UNCHANGED <<now, entry, mgr, bus, last, n_refresh, watch, twin, twin_entry, flow,
                   probe, press, extract, platform, prior, heard, coord>>

\* Some time after the previous recompute async_refresh runs again, on the
\* readings the previous recompute found.
RefreshLive ==
    /\ loop.tasks > 0
    /\ loop' = [loop EXCEPT !.tasks = 0]
    /\ \E dt \in LiveGaps, state_a \in LiveStatesA, state_b \in LiveStatesB :
          /\ last.at # None =>
                state_a.coords = last.coords_a /\ state_b.coords = last.coords_b
          /\ \E m \in { Elapsed(mgr, dt) } :
             \E r \in { async_refresh(m, entry, now, state_a, state_b) } :
                /\ mgr' = r.m
                /\ bus' = r.bus
                /\ last' = Locals(now, state_a, state_b, r)
    /\ n_refresh' = (n_refresh % MaxLiveCount) + 1
    /\ UNCHANGED <<now, entry, watch, twin, twin_entry, flow, probe, press,
                   extract, platform, prior, heard, coord>>

NextLive == TriggerLive \/ RefreshLive

\* The latest step was a call of async_refresh.
Retriggered == n_refresh' # n_refresh

\* Recomputes keep being triggered: the state changes of the entities and
\* the refresh button create the task again and again, and the event loop
\* runs every task it holds.
SpecLive ==
    InitLive /\ [][NextLive]_vars /\ WF_vars(TriggerLive) /\ []<><<Retriggered>>_vars

-----------------------------------------------------------------------------
(* A listener on hass.bus through the proximity episodes of one manager *)

\* At most MaxEpisodeRefresh calls of async_refresh are made.
MaxEpisodeRefresh == 4

\* With max_speed_kmh = 0 an approach makes the verdict unreliable; with
\* exit_th = entry_th a distance equal to both enters and leaves in turn.
EpisodeEntries ==
    { EntryOf(DEFAULT_EXIT_THRESHOLD_M, 0, 1, TRUE),
      EntryOf(DEFAULT_EXIT_THRESHOLD_M, 0, 1, FALSE),
      EntryOf(DEFAULT_EXIT_THRESHOLD_M, SLOW_SPEED_KMH, 2, TRUE),
      EntryOf(DEFAULT_ENTRY_THRESHOLD_M, 0, 1, FALSE) }

\* The readings of the entities: A stays (or is missing), B is inside the
\* entry threshold, on it, or on the exit threshold.
EpisodeStatesA == { Reading(0, None), Reading(None, None) }
EpisodeStatesB ==
    { Reading(DEFAULT_ENTRY_THRESHOLD_M - 200, None),
      Reading(DEFAULT_ENTRY_THRESHOLD_M, None),
      Reading(DEFAULT_EXIT_THRESHOLD_M, None) }

InitEpisode ==
    /\ now = 0
    /\ entry \in EpisodeEntries
    /\ mgr = AdjacencyManager
    /\ bus = << >>
    /\ last = NoLocals
    /\ n_refresh = 0
    /\ watch = NoWatch
    /\ twin = AdjacencyManager
    /\ twin_entry = entry
    /\ flow = NoFlow
    /\ loop = NoLoop
    /\ probe = NoProbe
    /\ press = NoPress
    /\ extract = NoExtract
    /\ platform = NoPlatform
    /\ prior = AdjacencyManager
    /\ heard = << >>
    /\ coord = NoCoordinator

\* async_refresh runs; the listener receives the events it fires, in order.
RefreshEpisode ==
    /\ n_refresh < MaxEpisodeRefresh
    /\ \E state_a \in EpisodeStatesA, state_b \in EpisodeStatesB :
          LET r == async_refresh(mgr, entry, now, state_a, state_b)
          IN  /\ mgr' = r.m
              /\ bus' = r.bus
              /\ last' = Locals(now, state_a, state_b, r)
              /\ heard' = heard \o r.bus
    /\ prior' = mgr
    /\ n_refresh' = n_refresh + 1
    /\ UNCHANGED <<now, entry, watch, twin, twin_entry, flow, loop, probe, press,
                   extract, platform, coord>>

NextEpisode == Tick \/ RefreshEpisode

SpecEpisode == InitEpisode /\ [][NextEpisode]_vars

-----------------------------------------------------------------------------
(* coordinator.py: one anchor and several targets *)

\* At most MaxCoordUpdates runs of _async_update_data.
MaxCoordUpdates == 4

\* The event names coordinator.py imports from const.py for the summary;
\* const.py gives them no value, so each stands for itself.
EVENT_ANY_ENTER == "EVENT_ANY_ENTER"
EVENT_ANY_LEAVE == "EVENT_ANY_LEAVE"

\* The anchor and the target lists of the modelled entries; a list may name
\* an entity twice.
Anchor == "anchor"
TargetLists == { << >>, <<"t1", "t2">>, <<"t1", "t1">> }

\* The options the coordinator reads: the accuracy ceiling set or switched
\* off.
CoordEntries ==
    { EntryOf(DEFAULT_EXIT_THRESHOLD_M, 0, 1, FALSE),
      [EntryOf(DEFAULT_EXIT_THRESHOLD_M, 0, 1, FALSE) EXCEPT !.max_accuracy_m = 0] }

\* hass.states of the anchor and of the targets: at the anchor's place or at
\* a distance, without coordinates, or with an accuracy radius above the
\* default ceiling.
CoordStates ==
    { s \in [ {Anchor, "t1", "t2"} ->
                { Reading(0, None), Reading(None, None),
                  Reading(0, DEFAULT_MAX_ACCURACY_M + 1),
                  Reading(DEFAULT_ENTRY_THRESHOLD_M, None),
                  Reading(0 - DEFAULT_EXIT_THRESHOLD_M, None),
                  Reading(DEFAULT_EXIT_THRESHOLD_M, DEFAULT_MAX_ACCURACY_M + 1) } ] :
         /\ s[Anchor].coords \in {0, None}
         /\ \A t \in {"t1", "t2"} : s[t].coords # 0 }

PairData(target, dist_m, bearing, buck, prox, last_changed, last_entered, last_left) ==
    [ target |-> target, distance_m |-> dist_m, bearing_deg |-> bearing,
      bucket |-> buck, proximity |-> prox, last_changed |-> last_changed,
      last_entered |-> last_entered, last_left |-> last_left ]

SummaryData(c, nearest_target, nearest_dist, any_prox, pairs) ==
    [ anchor |-> Anchor, targets |-> c.targets, nearest_target |-> nearest_target,
      nearest_distance_m |-> nearest_dist, any_proximity |-> any_prox,
      pairs |-> pairs, force_meters |-> c.force_meters ]

\* MemberAdjacencyCoordinator.__init__; data is None until the first update.
MemberAdjacencyCoordinator(e, targets) ==
    [ targets |-> targets,
      entry_th |-> e.entry_threshold_m,
      exit_th |-> e.exit_threshold_m,
      max_accuracy_m |-> e.max_accuracy_m,
      force_meters |-> DEFAULT_FORCE_METERS,
      _pair_prev |-> [t \in {} |-> NoneValue],
      _any_prev |-> FALSE,
      data |-> NoneValue ]

\* Variant: the accuracy of the reading is not looked at.
_coords_if_ok_any_accuracy(c, state) ==
    state.coords

\* MemberAdjacencyCoordinator._coords_if_ok
_coords_if_ok_coordinator(c, state) ==
    IF state.coords = None THEN None
    ELSE IF c.max_accuracy_m > 0 /\ state.acc # None /\ state.acc > c.max_accuracy_m
    THEN None
    ELSE state.coords

\* _bearing_deg for positions along a meridian: north, or south.
_bearing_deg(c1, c2) == IF c2 >= c1 THEN 0 ELSE 180

\* The payload of a per-target event and of a summary event.
PairEvent(name, c, t, dist_m) ==
    [ name |-> name, anchor |-> Anchor, target |-> t, distance_m |-> dist_m,
      entry_threshold_m |-> c.entry_th, exit_threshold_m |-> c.exit_th ]
AnyEvent(name, c, any_prox, nearest_target, nearest_dist) ==
    [ name |-> name, anchor |-> Anchor, any_proximity |-> any_prox,
      entry_threshold_m |-> c.entry_th, exit_threshold_m |-> c.exit_th,
      nearest_target |-> nearest_target, nearest_distance_m |-> nearest_dist ]

\* pairs[t] = pair
Put(pairs, t, pair) ==
    [x \in DOMAIN pairs \cup {t} |-> IF x = t THEN pair ELSE pairs[x]]

\* The locals of the loop before its first iteration.
LoopStart ==
    [ pairs |-> [t \in {} |-> NoneValue], nearest_target |-> NoneStr,
      nearest_dist |-> None, any_prox |-> FALSE, bus |-> << >> ]

\* Lines 204-268: one iteration of the loop over self.targets.
TargetStep(c, now_iso, anchor_coords, states, acc, t) ==
    LET has_prev == t \in DOMAIN c._pair_prev
        prev_prox == IF has_prev THEN c._pair_prev[t].proximity ELSE FALSE
        coords_t == _coords_if_ok_coordinator(c, states[t])
        missing == anchor_coords = None \/ coords_t = None
        dist_m == IF missing THEN None ELSE ha_distance(anchor_coords, coords_t)
        prox == IF missing THEN prev_prox
                ELSE IF prev_prox THEN dist_m < c.exit_th
                ELSE dist_m <= c.entry_th
        nearer == dist_m # None /\ (acc.nearest_dist = None \/ dist_m < acc.nearest_dist)
        changed == prox # prev_prox
    IN  [ pairs |->
             Put(acc.pairs, t,
                 PairData(t, dist_m,
                          IF missing THEN None ELSE _bearing_deg(anchor_coords, coords_t),
                          IF missing THEN NoneStr ELSE _bucket(dist_m),
                          prox,
                          IF changed THEN now_iso
                          ELSE IF has_prev THEN c._pair_prev[t].last_changed ELSE None,
                          IF changed /\ prox THEN now_iso
                          ELSE IF has_prev THEN c._pair_prev[t].last_entered ELSE None,
                          IF changed /\ ~prox THEN now_iso
                          ELSE IF has_prev THEN c._pair_prev[t].last_left ELSE None)),
          nearest_target |-> IF nearer THEN t ELSE acc.nearest_target,
          nearest_dist |-> IF nearer THEN dist_m ELSE acc.nearest_dist,
          any_prox |-> acc.any_prox \/ prox,
          bus |-> IF ~changed THEN acc.bus
                  ELSE Append(acc.bus,
                              PairEvent(IF prox THEN EVENT_ENTER ELSE EVENT_LEAVE,
                                        c, t, dist_m)) ]

RECURSIVE TargetLoop(_, _, _, _, _, _)
TargetLoop(c, now_iso, anchor_coords, states, acc, i) ==
    IF i > Len(c.targets) THEN acc
    ELSE TargetLoop(c, now_iso, anchor_coords, states,
                    TargetStep(c, now_iso, anchor_coords, states, acc, c.targets[i]),
                    i + 1)

\* Variant: the summary event is fired on every update.
AnyEventsEveryUpdate(c, r) ==
    << AnyEvent(IF r.any_prox THEN EVENT_ANY_ENTER ELSE EVENT_ANY_LEAVE,
                c, r.any_prox, r.nearest_target, r.nearest_dist) >>

\* Lines 270-283: the summary event, fired when any_prox differs from the
\* value of the previous update.
AnyEvents(c, r) ==
    IF r.any_prox # c._any_prev
    THEN << AnyEvent(IF r.any_prox THEN EVENT_ANY_ENTER ELSE EVENT_ANY_LEAVE,
                     c, r.any_prox, r.nearest_target, r.nearest_dist) >>
    ELSE << >>

\* Lines 285-296: the loop's result is kept for the next update and returned.
Summarised(c, r) ==
    [ c |-> [c EXCEPT !._pair_prev = r.pairs, !._any_prev = r.any_prox,
                      !.data = SummaryData(c, r.nearest_target, r.nearest_dist,
                                           r.any_prox, r.pairs)],
      bus |-> r.bus \o AnyEvents(c, r) ]

\* MemberAdjacencyCoordinator._async_update_data: the options are read
\* again, the loop runs, the summary event is fired.
_async_update_data(c, e, now_iso, states) ==
    LET c1 == [c EXCEPT !.entry_th = e.entry_threshold_m,
                        !.exit_th = e.exit_threshold_m,
                        !.max_accuracy_m = e.max_accuracy_m,
                        !.force_meters = DEFAULT_FORCE_METERS]
    IN  Summarised(c1, TargetLoop(c1, now_iso,
                                  _coords_if_ok_coordinator(c1, states[Anchor]),
                                  states, LoopStart, 1))

InitCoordinator ==
    /\ now = 0
    /\ entry \in CoordEntries
    /\ mgr = AdjacencyManager
    /\ bus = << >>
    /\ last = NoLocals
    /\ n_refresh = 0
    /\ watch = NoWatch
    /\ twin = AdjacencyManager
    /\ twin_entry = entry
    /\ flow = NoFlow
    /\ loop = NoLoop
    /\ probe = NoProbe
    /\ press = NoPress
    /\ extract = NoExtract
    /\ platform = NoPlatform
    /\ prior = AdjacencyManager
    /\ heard = << >>
    /\ \E targets \in TargetLists : coord = MemberAdjacencyCoordinator(entry, targets)

\* The options of the entry are changed.
OptionsChanged ==
    /\ \E e \in CoordEntries : e # entry /\ entry' = e
    /\ UNCHANGED <<now, mgr, bus, last, n_refresh, watch, twin, twin_entry, flow, loop,
                   probe, press, extract, platform, prior, heard, coord>>

\* An update of the coordinator, one clock step after the previous one; the
\* listener receives the events it fires.
UpdateCoordinator ==
    /\ n_refresh < MaxCoordUpdates
    /\ now' = now + TickS
    /\ \E states \in CoordStates :
          \E r \in { _async_update_data(coord, entry, now, states) } :
             /\ coord' = r.c
             /\ bus' = r.bus
             /\ heard' = heard \o r.bus
             /\ last' = [NoLocals EXCEPT !.at = now] @@ [states |-> states]
    /\ n_refresh' = n_refresh + 1
    /\ UNCHANGED <<entry, mgr, watch, twin, twin_entry, flow, loop, probe, press,
                   extract, platform, prior>>

NextCoordinator == OptionsChanged \/ UpdateCoordinator

SpecCoordinator == InitCoordinator /\ [][NextCoordinator]_vars

-----------------------------------------------------------------------------
(* Properties *)

\* The latest step was a call of async_refresh.
Recomputed == n_refresh' = n_refresh + 1

\* The latest async_refresh was Valid / Invalid.
LastValid == n_refresh > 0 /\ mgr.data.data_valid
LastInvalid == n_refresh > 0 /\ ~mgr.data.data_valid

\* The distance between the readings of the latest async_refresh.
LastDistance == ha_distance(last.coords_a, last.coords_b)

\* C1: after every Valid recompute the proximity is (distance <= entry_th)
\* when the previous proximity was false and (distance < exit_th) when it was
\* true, the distance being that of the two readings of the recompute.
C1_ProximityRule ==
    LastValid =>
        /\ mgr.data.distance_m = LastDistance
        /\ ~last.prev_prox =>
              (mgr.data.proximity <=> LastDistance <= entry.entry_threshold_m)
        /\ last.prev_prox =>
              (mgr.data.proximity <=> LastDistance < entry.exit_threshold_m)

\* A Valid recompute at exactly entry_th, out of proximity before, entered.
C1_Witness ==
    /\ LastValid /\ ~last.prev_prox /\ mgr.data.proximity
    /\ LastDistance = entry.entry_threshold_m

\* C2: with entry_th < exit_th, proximity once entered is left only by a
\* Valid recompute whose distance is at least exit_th; every other step,
\* Valid with a distance below exit_th or Invalid, keeps it.
C2_HysteresisStability ==
    [][ (entry.entry_threshold_m < entry.exit_threshold_m
         /\ mgr.data.proximity /\ ~mgr'.data.proximity)
        => (/\ Recomputed
            /\ mgr'.data.data_valid
            /\ ha_distance(last'.coords_a, last'.coords_b) >= entry.exit_threshold_m)
      ]_vars

\* Two Valid recomputes between the thresholds after the entry: still inside.
C2_Witness ==
    /\ LastValid /\ last.prev_prox /\ mgr.data.proximity
    /\ mgr.data.proximity_update_count = 3
    /\ LastDistance > entry.entry_threshold_m
    /\ LastDistance < entry.exit_threshold_m

\* C3 as stated: in proximity, a Valid recompute at exactly exit_th stays in
\* proximity and one at exit_th - 1 leaves it.
C3_ExitBoundaryAsStated ==
    (LastValid /\ last.prev_prox) =>
        /\ LastDistance = entry.exit_threshold_m => mgr.data.proximity
        /\ LastDistance = entry.exit_threshold_m - 1 => ~mgr.data.proximity

\* C3 amended: in proximity, a Valid recompute at exactly exit_th leaves
\* proximity and one at exit_th - 1 stays in proximity.
C3_ExitBoundary ==
    (LastValid /\ last.prev_prox) =>
        /\ LastDistance = entry.exit_threshold_m => ~mgr.data.proximity
        /\ LastDistance = entry.exit_threshold_m - 1 => mgr.data.proximity

\* In proximity, a Valid recompute at exactly exit_th has left it.
C3_Witness ==
    /\ LastValid /\ last.prev_prox /\ ~mgr.data.proximity
    /\ LastDistance = entry.exit_threshold_m

\* C4: a recompute in which the coordinates of A or of B are absent leaves
\* proximity, distance_m and bucket as they were and sets data_valid = false
\* and last_error = "missing_coords".
C4_MissingDataHold ==
    [][ (Recomputed /\ (last'.coords_a = None \/ last'.coords_b = None))
        => (/\ mgr'.data.proximity = mgr.data.proximity
            /\ mgr'.data.distance_m = mgr.data.distance_m
            /\ mgr'.data.bucket = mgr.data.bucket
            /\ mgr'.data.data_valid = FALSE
            /\ mgr'.data.last_error = "missing_coords")
      ]_vars

\* In proximity, a recompute without the coordinates of A held the state.
C4_Witness ==
    /\ n_refresh > 0 /\ last.coords_a = None /\ last.coords_b # None
    /\ mgr.data.proximity /\ mgr.data.distance_m # None
    /\ mgr.data.last_error = "missing_coords"

\* The names of a sequence of events.
Names(events) == [i \in 1..Len(events) |-> events[i].name]

\* The latest async_refresh moved proximity from false to true.
Entered == n_refresh > 0 /\ ~last.prev_prox /\ mgr.data.proximity

\* The flag is set and the verdict of the latest Valid recompute is unreliable.
Gated == entry.require_reliable_proximity /\ ~mgr.data.proximity_reliable

\* C5: a recompute that enters proximity fires exactly one enter-type event:
\* the unreliable-enter event alone when require_reliable_proximity is set
\* and the verdict is unreliable, otherwise the enter event followed by the
\* first proximity-update event.
C5_ReliabilityGating ==
    Entered =>
        /\ Gated => Names(bus) = <<EVENT_ENTER_UNRELIABLE>>
        /\ ~Gated => /\ Names(bus) = <<EVENT_ENTER, EVENT_PROXIMITY_UPDATE>>
                     /\ bus[2].is_first_update
        /\ \A i \in 1..Len(bus) :
              bus[i].proximity_reliable = mgr.data.proximity_reliable

\* An entry with too few updates in the window under the flag.
C5_Witness ==
    /\ Entered /\ Gated
    /\ mgr.data.unreliable_reason = "insufficient_updates_a"
    /\ mgr.data.a_updates_in_window < entry.min_updates_for_proximity
    /\ Names(bus) = <<EVENT_ENTER_UNRELIABLE>>

\* C6: two managers fed the same readings at the same times, whose options
\* differ only in require_reliable_proximity, min_updates_for_proximity and
\* update_window_s, agree on proximity, distance_m, bucket, data_valid,
\* last_error and proximity_update_count after every step.
C6_ReliabilityIndependence ==
    /\ mgr.data.proximity = twin.data.proximity
    /\ mgr.data.distance_m = twin.data.distance_m
    /\ mgr.data.bucket = twin.data.bucket
    /\ mgr.data.data_valid = twin.data.data_valid
    /\ mgr.data.last_error = twin.data.last_error
    /\ mgr.data.proximity_update_count = twin.data.proximity_update_count

\* The two managers stayed in proximity with different verdicts.
C6_Witness ==
    /\ LastValid /\ mgr.data.proximity /\ mgr.data.proximity_update_count >= 2
    /\ mgr.data.proximity_reliable # twin.data.proximity_reliable

\* The error code the ordered checks give: missing coordinates, accuracy of
\* A, accuracy of B, the movement filter on A, the movement filter on B.
FirstFailingCheck(m, e, t, coords_a, coords_b, acc_a, acc_b) ==
    IF coords_a = None \/ coords_b = None THEN "missing_coords"
    ELSE IF AccuracyFiltered(e, acc_a) THEN "accuracy_filtered_a"
    ELSE IF AccuracyFiltered(e, acc_b) THEN "accuracy_filtered_b"
    ELSE IF process_side(m, e, t, "a", coords_a).err # NoneStr
    THEN process_side(m, e, t, "a", coords_a).err
    ELSE process_side(m, e, t, "b", coords_b).err

\* C7: a recompute reports the first failing check in the order missing
\* coordinates, accuracy of A, accuracy of B, movement filter on A, movement
\* filter on B; it is Valid with no last_error exactly when none fails.
C7_RejectionOrder ==
    [][ Recomputed =>
          LET first == FirstFailingCheck(mgr, entry, now, last'.coords_a,
                           last'.coords_b, mgr'.data.accuracy_a, mgr'.data.accuracy_b)
          IN  /\ mgr'.data.last_error = first
              /\ mgr'.data.data_valid = (first = NoneStr)
              /\ first \in { NoneStr, "missing_coords", "accuracy_filtered_a",
                             "accuracy_filtered_b", "resync_a", "speed_filtered_a",
                             "resync_b", "speed_filtered_b" }
      ]_vars

\* Both accuracy radii exceeded the ceiling and the code of A was reported.
C7_Witness ==
    /\ LastInvalid /\ mgr.data.last_error = "accuracy_filtered_a"
    /\ AccuracyFiltered(entry, mgr.data.accuracy_a)
    /\ AccuracyFiltered(entry, mgr.data.accuracy_b)

\* The manager without the fields any Invalid recompute may write.
WithoutVerdict(m) ==
    [m EXCEPT !.data.data_valid = FALSE, !.data.last_error = NoneStr,
              !.data.accuracy_a = None, !.data.accuracy_b = None]

\* The manager without those and without the per-side movement state.
WithoutMovement(m) ==
    [WithoutVerdict(m) EXCEPT
        !.a_prev_coords = None, !.b_prev_coords = None,
        !.a_last_fix = None, !.b_last_fix = None,
        !.a_speed_kmh = NoSpeed, !.b_speed_kmh = NoSpeed,
        !.a_resync_until = None, !.b_resync_until = None]

\* C8: an Invalid recompute fires no event and changes nothing but
\* data_valid, last_error, the accuracy fields and, when the movement filter
\* rejected, the per-side movement state.
C8_InvalidFrame ==
    [][ (Recomputed /\ ~mgr'.data.data_valid) =>
          /\ bus' = << >>
          /\ WithoutMovement(mgr') = WithoutMovement(mgr)
          /\ mgr'.data.last_error \in
                {"missing_coords", "accuracy_filtered_a", "accuracy_filtered_b"}
             => WithoutVerdict(mgr') = WithoutVerdict(mgr)
      ]_vars

\* In proximity, a speed rejection of B kept distance, count and proximity.
C8_Witness ==
    /\ LastInvalid /\ mgr.data.last_error = "speed_filtered_b"
    /\ mgr.data.proximity /\ mgr.data.proximity_update_count >= 1
    /\ mgr.data.distance_m # None /\ bus = << >>

\* What C9 says process_side returned (res) for the reading coords of a
\* side, given the state the manager was in before the recompute at time t.
SpeedRule(m, e, t, side, coords, res) ==
    LET s == SideOf(m, side)
        dt_s == t - s.last_fix
        displacement_m == ha_distance(s.prev_coords, coords)
        has_previous_fix == s.prev_coords # None /\ s.last_fix # None
        resync == \/ t - s.last_fix > e.resync_silence_s
                  \/ (s.resync_until # None /\ t < s.resync_until)
    IN  res # "not_called" =>
          ( res = "speed_filtered_" \o side
            <=> /\ has_previous_fix /\ ~resync /\ dt_s > 0
                /\ e.max_speed_kmh > 0
                /\ displacement_m * 36 > e.max_speed_kmh * dt_s * 10 )

\* C9: process_side rejects a reading with speed_filtered_<side> exactly when
\* the side has a previous fix, no resync applies, dt > 0, max_speed_kmh > 0
\* and (displacement_m / dt_s) * 3.6 > max_speed_kmh; in particular never
\* when max_speed_kmh = 0.  At 150 km/h, 100,000 m in 60 s is rejected and in
\* 3600 s accepted.
C9_SpeedRejection ==
    [][ Recomputed =>
          /\ SpeedRule(mgr, entry, now, "a", last'.coords_a, last'.res_a)
          /\ SpeedRule(mgr, entry, now, "b", last'.coords_b, last'.res_b)
          /\ entry.max_speed_kmh = 0 =>
                mgr'.data.last_error \notin {"speed_filtered_a", "speed_filtered_b"}
          /\ SpeedRejected([max_speed_kmh |-> DEFAULT_MAX_SPEED_KMH],
                           SpeedKmh(100000, 60))
          /\ ~SpeedRejected([max_speed_kmh |-> DEFAULT_MAX_SPEED_KMH],
                            SpeedKmh(100000, 3600))
      ]_vars

\* A reading of A was rejected for a speed above the limit.
C9_Witness ==
    /\ LastInvalid /\ last.res_a = "speed_filtered_a"
    /\ entry.max_speed_kmh > 0
    /\ SpeedGt(mgr.a_speed_kmh, entry.max_speed_kmh)

\* C10: after a silence of more than resync_silence_s, the recomputes that
\* hand both readings to the movement filter are rejected as resync for
\* exactly resync_hold_s seconds from the first reading after the silence,
\* and the first one at or after the end of that window is not.
C10_SilenceResync ==
    (n_refresh > 0 /\ last.res_a # "not_called" /\ watch.resync_from # None) =>
        ( last.at < watch.resync_from + entry.resync_hold_s
          <=> mgr.data.last_error \in {"resync_a", "resync_b"} )

\* C11: in every recompute that hands both readings to the movement filter,
\* the previous coordinate, last-fix time, speed and resync window of side B
\* are afterwards what the per-side algorithm makes of B's own reading,
\* whether the reading of side A was accepted or rejected.
C11_SidesIndependent ==
    [][ (Recomputed /\ last'.res_a # "not_called") =>
          SideOf(mgr', "b") =
              SideOf(process_side(mgr, entry, now, "b", last'.coords_b).m, "b")
      ]_vars

\* The latest flow step was submitted with thresholds whose integer parts
\* satisfy exit_threshold_m < entry_threshold_m.
SubmittedExitLtEntry(f) ==
    /\ f.user_input.present
    /\ int(f.user_input.exit_threshold_m) < int(f.user_input.entry_threshold_m)

C13_CountImpliesProximity ==
    /\ mgr.data.proximity_update_count > 0 => mgr.data.proximity
    /\ ~mgr.data.proximity => mgr.data.proximity_update_count = 0

\* A pair left proximity with the count reset, and an Invalid recompute
\* followed.
C13_Witness ==
    /\ LastInvalid /\ ~mgr.data.proximity /\ mgr.data.proximity_update_count = 0
    /\ mgr.data.last_left # None
    /\ mgr.data.last_left > mgr.data.last_entered
    /\ mgr.data.last_valid_updated = mgr.data.last_left

\* C14: last_entered changes only in a Valid recompute that moves proximity
\* from false to true, which stamps it with the time of the recompute;
\* last_left changes only in a Valid recompute that moves proximity from true
\* to false.  No other step writes either.
C14_EnteredOnlyOnEntry ==
    [][ LET entering == Recomputed /\ mgr'.data.data_valid
                        /\ ~mgr.data.proximity /\ mgr'.data.proximity
            leaving == Recomputed /\ mgr'.data.data_valid
                       /\ mgr.data.proximity /\ ~mgr'.data.proximity
        IN  /\ mgr'.data.last_entered # mgr.data.last_entered => entering
            /\ mgr'.data.last_left # mgr.data.last_left => leaving
            /\ entering => mgr'.data.last_entered = now
            /\ leaving => mgr'.data.last_left = now
      ]_vars

\* A pair entered, left later and an Invalid recompute followed later still:
\* both stamps are those of the two transitions.
C14_Witness ==
    /\ LastInvalid /\ ~mgr.data.proximity
    /\ mgr.data.last_entered # None
    /\ mgr.data.last_left > mgr.data.last_entered
    /\ last.at > mgr.data.last_left

\* C15: the recompute that enters proximity stamps last_changed and
\* last_entered and sets proximity_update_count to 1; the one that leaves
\* stamps last_changed and last_left and sets the count to 0; a Valid
\* recompute that stays in proximity adds exactly 1 to the count, whether or
\* not it fires the update event; one that stays out leaves the count as it
\* was.
C15_TransitionBookkeeping ==
    [][ (Recomputed /\ mgr'.data.data_valid) =>
          LET before == mgr.data
              after == mgr'.data
          IN  /\ (~before.proximity /\ after.proximity) =>
                    /\ after.last_changed = now /\ after.last_entered = now
                    /\ after.proximity_update_count = 1
              /\ (before.proximity /\ ~after.proximity) =>
                    /\ after.last_changed = now /\ after.last_left = now
                    /\ after.proximity_update_count = 0
              /\ (before.proximity /\ after.proximity) =>
                    /\ after.proximity_update_count = before.proximity_update_count + 1
                    /\ after.last_changed = before.last_changed
              /\ (~before.proximity /\ ~after.proximity) =>
                    /\ after.proximity_update_count = before.proximity_update_count
                    /\ after.last_changed = before.last_changed
      ]_vars

\* A Valid recompute stayed in proximity under an unreliable verdict and the
\* flag: no update event was fired and the count went from 1 to 2.
C15_Witness ==
    /\ LastValid /\ last.prev_prox /\ mgr.data.proximity
    /\ Gated /\ bus = << >>
    /\ mgr.data.proximity_update_count = 2

\* The position of a bucket name in BUCKETS.
Rank(name) == CHOOSE i \in 1..Len(BUCKETS) : BUCKETS[i][2] = name

\* C16: _bucket returns the name of the first pair of BUCKETS (bounds 50, 200,
\* 1000, 5000, catch-all) whose bound strictly exceeds the distance, so a
\* distance equal to a bound falls in the next bucket (49 very_near, 50 near,
\* 10000 very_far); the result is monotone in the distance and every
\* distance gets a bucket.
C16_BucketClassification ==
    probe.distance_m # None =>
        /\ \E i \in 1..Len(BUCKETS) :
              /\ probe.bucket = BUCKETS[i][2]
              /\ probe.distance_m < BUCKETS[i][1]
              /\ \A j \in 1..(i - 1) : probe.distance_m >= BUCKETS[j][1]
        /\ <<BUCKETS[1][1], BUCKETS[2][1], BUCKETS[3][1], BUCKETS[4][1]>>
              = <<50, 200, 1000, 5000>>
        /\ probe.distance_m = 49 => probe.bucket = "very_near"
        /\ probe.distance_m = 50 => probe.bucket = "near"
        /\ probe.distance_m = 10000 => probe.bucket = "very_far"
        /\ (probe.prev_distance_m # None /\ probe.prev_distance_m <= probe.distance_m)
              => Rank(probe.prev_bucket) <= Rank(probe.bucket)

\* A distance equal to the bound 50 was classified near right after 49 was
\* classified very_near.
C16_Witness ==
    /\ probe.prev_distance_m = 49 /\ probe.prev_bucket = "very_near"
    /\ probe.distance_m = 50 /\ probe.bucket = "near"

\* The accuracy radius acc lies strictly above a ceiling that is in force.
AboveCeiling(e, acc) == e.max_accuracy_m > 0 /\ acc # None /\ acc > e.max_accuracy_m

\* C17: a recompute with both coordinates present is rejected with
\* accuracy_filtered_a exactly when max_accuracy_m > 0 and A reports a radius
\* strictly above it, and with accuracy_filtered_b exactly when that holds of
\* B (and A was not rejected first); an absent radius, a radius equal to the
\* ceiling, or max_accuracy_m = 0 never rejects.  The rejected cycle holds
\* proximity, distance and bucket and leaves the movement filter state alone,
\* as a cycle without coordinates does.
C17_AccuracyFilter ==
    [][ (Recomputed /\ last'.coords_a # None /\ last'.coords_b # None) =>
          LET over_a == AboveCeiling(entry, mgr'.data.accuracy_a)
              over_b == AboveCeiling(entry, mgr'.data.accuracy_b)
              missing == async_refresh(mgr, entry, now,
                             Reading(None, mgr'.data.accuracy_a),
                             Reading(None, mgr'.data.accuracy_b)).m
          IN  /\ mgr'.data.last_error = "accuracy_filtered_a" <=> over_a
              /\ mgr'.data.last_error = "accuracy_filtered_b" <=> (~over_a /\ over_b)
              /\ (over_a \/ over_b) =>
                    /\ ~mgr'.data.data_valid
                    /\ bus' = << >>
                    /\ mgr'.data.proximity = mgr.data.proximity
                    /\ mgr'.data.distance_m = mgr.data.distance_m
                    /\ mgr'.data.bucket = mgr.data.bucket
                    /\ SideOf(mgr', "a") = SideOf(mgr, "a")
                    /\ SideOf(mgr', "b") = SideOf(mgr, "b")
                    /\ [mgr' EXCEPT !.data.last_error = "missing_coords"] = missing
      ]_vars

\* In proximity, a recompute in which A reported exactly the ceiling and B
\* one metre more was rejected for B, proximity and distance held.
C17_Witness ==
    /\ LastInvalid /\ mgr.data.last_error = "accuracy_filtered_b"
    /\ mgr.data.accuracy_a = entry.max_accuracy_m
    /\ mgr.data.accuracy_b = entry.max_accuracy_m + 1
    /\ mgr.data.proximity /\ mgr.data.distance_m # None
    /\ mgr.a_last_fix # None /\ mgr.a_last_fix < last.at

\* The number of times of history that lie within window_s seconds before t.
UpdatesWithin(history, window_s, t) ==
    Cardinality({ i \in 1..Len(history) : history[i] >= t - window_s })

\* The first failing reliability check of a Valid recompute at time t that
\* found the distance distance_m, the manager having been in state before
\* and being in state after: too few updates of A, too few of B, a distance
\* shrinking faster than 2 * max_speed_kmh, a resync hold of A, of B.
FirstUnreliable(before, after, e, t, distance_m) ==
    LET dt_s == t - before._prev_distance_time
        closing_m == before._prev_distance_m - distance_m
        measured == before._prev_distance_m # None
                    /\ before._prev_distance_time # None /\ dt_s > 0
    IN  IF UpdatesWithin(after.a_update_history, e.update_window_s, t)
              < e.min_updates_for_proximity
        THEN "insufficient_updates_a"
        ELSE IF UpdatesWithin(after.b_update_history, e.update_window_s, t)
              < e.min_updates_for_proximity
        THEN "insufficient_updates_b"
        ELSE IF measured /\ closing_m * 36 > 2 * e.max_speed_kmh * dt_s * 10
        THEN "unrealistic_convergence"
        ELSE IF after.a_resync_until # None /\ t < after.a_resync_until
        THEN "resync_a"
        ELSE IF after.b_resync_until # None /\ t < after.b_resync_until
        THEN "resync_b"
        ELSE NoneStr

\* C18: the reliability verdict of a Valid recompute is the first failing
\* check in the order: updates of A within update_window_s below
\* min_updates_for_proximity, the same for B, convergence speed above
\* 2 * max_speed_kmh, A or B within its resync hold; if none fails the
\* verdict is reliable with no reason.
C18_ReliabilityOrder ==
    [][ (Recomputed /\ mgr'.data.data_valid) =>
          LET first == FirstUnreliable(mgr, mgr', entry, now,
                           ha_distance(last'.coords_a, last'.coords_b))
          IN  /\ mgr'.data.unreliable_reason = first
              /\ mgr'.data.proximity_reliable = (first = NoneStr)
      ]_vars

\* A pair left proximity at exit_th and, more than update_window_s later, the
\* next recompute found it at entry_th: too few updates of A and a distance
\* shrinking faster than the limit 2 * 0, and the update count was reported.
C18_Witness ==
    /\ LastValid /\ mgr.data.unreliable_reason = "insufficient_updates_a"
    /\ entry.max_speed_kmh = 0
    /\ mgr.data.a_updates_in_window < entry.min_updates_for_proximity
    /\ n_refresh = 3 /\ mgr.data.last_left # None
    /\ mgr.data.last_valid_updated > mgr.data.last_left + entry.update_window_s
    /\ mgr.data.distance_m = entry.entry_threshold_m
    /\ mgr.data.distance_m < entry.exit_threshold_m

\* The distance an assessment during the latest recompute has at hand: that
\* of the two readings, or the distance held when a reading is absent.
AssessedDistance(before, coords_a, coords_b) ==
    IF coords_a # None /\ coords_b # None THEN ha_distance(coords_a, coords_b)
    ELSE before.data.distance_m

\* C19 as stated: after any recompute, Valid or Invalid, proximity_reliable
\* and unreliable_reason hold the verdict of the reliability checks made at
\* that recompute.
C19_VerdictCurrentAsStated ==
    [][ Recomputed =>
          LET first == FirstUnreliable(mgr, mgr', entry, now,
                           AssessedDistance(mgr, last'.coords_a, last'.coords_b))
          IN  /\ mgr'.data.unreliable_reason = first
              /\ mgr'.data.proximity_reliable = (first = NoneStr)
      ]_vars

\* C19 amended: after a Valid recompute proximity_reliable and
\* unreliable_reason hold the verdict of the reliability checks made at that
\* recompute; an Invalid recompute makes no assessment and leaves both, and
\* the update counts and the convergence speed, as they were.
C19_VerdictCurrent ==
    [][ Recomputed =>
          IF mgr'.data.data_valid
          THEN LET first == FirstUnreliable(mgr, mgr', entry, now,
                                AssessedDistance(mgr, last'.coords_a, last'.coords_b))
               IN  /\ mgr'.data.unreliable_reason = first
                   /\ mgr'.data.proximity_reliable = (first = NoneStr)
          ELSE /\ mgr'.data.unreliable_reason = mgr.data.unreliable_reason
               /\ mgr'.data.proximity_reliable = mgr.data.proximity_reliable
               /\ mgr'.data.a_updates_in_window = mgr.data.a_updates_in_window
               /\ mgr'.data.b_updates_in_window = mgr.data.b_updates_in_window
               /\ mgr'.data.convergence_speed_kmh = mgr.data.convergence_speed_kmh
      ]_vars

\* An Invalid recompute kept the verdict reliable of an earlier Valid one,
\* although no update of A lies within the window any more.
C19_Witness ==
    /\ LastInvalid /\ mgr.data.proximity_reliable
    /\ mgr.data.last_valid_updated # None
    /\ mgr.data.a_updates_in_window >= entry.min_updates_for_proximity
    /\ UpdatesWithin(mgr.a_update_history, entry.update_window_s, last.at)
          < entry.min_updates_for_proximity

\* C20: with debounce_s > 0 at most one debounce timer is pending at any
\* time; each state change cancels the pending timer and arms a new one for
\* debounce_s seconds later without starting a recompute, so the pending
\* timer is that of the latest state change; a burst of state changes, each
\* less than debounce_s after the one before, gets exactly one recompute,
\* started by the timer debounce_s seconds after the last of them.
C20_Debounce ==
    mgr.debounce_s > 0 =>
        /\ Cardinality(loop.timers) <= 1
        /\ \A tm \in loop.timers :
              /\ mgr._cancel_debounce = tm.id
              /\ tm.due = loop.last_trigger + mgr.debounce_s
              /\ now <= tm.due
        /\ loop.timers = {} => mgr._cancel_debounce = None
        /\ loop.immediate = 0
        /\ loop.debounced + Cardinality(loop.timers) = loop.bursts
        /\ (loop.bursts > 0 /\ loop.timers = {}) =>
              now >= loop.last_trigger + mgr.debounce_s
        /\ n_refresh + loop.tasks = (IF mgr._unsub THEN 1 ELSE 0) + loop.debounced

\* Three state changes over two seconds formed one burst, and its single
\* recompute ran debounce_s seconds after the last of them.
C20_Witness ==
    /\ mgr.debounce_s > 0
    /\ loop.triggers = 3 /\ loop.bursts = 1 /\ loop.debounced = 1
    /\ loop.last_trigger = loop.burst_start + 2
    /\ loop.timers = {} /\ loop.tasks = 0 /\ n_refresh = 2
    /\ last.at = loop.last_trigger + mgr.debounce_s

\* C21: a forced refresh recomputes at once whatever debounce_s is, creating
\* no task, and cancels the pending debounce timer without arming another:
\* after it no timer is pending, and every timer pending later was armed by a
\* state change reported after the forced refresh, so no state change that
\* was pending at the forced refresh starts a recompute later.
C21_ForcedRefresh ==
    [][ /\ loop'.forced # loop.forced =>
              /\ n_refresh' = n_refresh + 1
              /\ last'.at = now
              /\ loop'.timers = {}
              /\ mgr'._cancel_debounce = None
              /\ loop'.tasks = loop.tasks
        /\ loop'.last_forced # None =>
              \A tm \in loop'.timers :
                  /\ loop'.last_trigger >= loop'.last_forced
                  /\ tm.due = loop'.last_trigger + mgr'.debounce_s
        /\ (loop.last_forced # None /\ loop'.debounced # loop.debounced) =>
              /\ loop.last_trigger >= loop.last_forced
              /\ now = loop.last_trigger + mgr.debounce_s
      ]_vars

\* A forced refresh ran one second after a state change armed the timer:
\* the timer is gone, and the clock passed its due time with no recompute
\* but the forced one.
C21_Witness ==
    /\ loop.forced = 1 /\ loop.triggers = 1 /\ mgr.debounce_s > 0
    /\ loop.last_forced = loop.last_trigger + 1
    /\ now > loop.last_trigger + mgr.debounce_s
    /\ loop.timers = {} /\ loop.tasks = 0 /\ loop.debounced = 0
    /\ n_refresh = 2 /\ last.at = loop.last_forced

\* The manager was started and has been stopped.
Stopped(m, n) == n > 0 /\ ~m._unsub

\* C22: async_stop unsubscribes and cancels the pending debounce timer;
\* afterwards no timer is pending, no state change is handled, no task is
\* created, and the only recomputes are those of tasks created before the
\* stop.
C22_Stop ==
    [][ /\ (~Stopped(mgr, n_refresh) /\ Stopped(mgr', n_refresh')) =>
              /\ loop'.timers = {}
              /\ mgr'._cancel_debounce = None
              /\ loop'.tasks = loop.tasks
              /\ n_refresh' = n_refresh
        /\ Stopped(mgr, n_refresh) =>
              /\ Stopped(mgr', n_refresh')
              /\ loop'.timers = {}
              /\ loop'.triggers = loop.triggers
              /\ loop'.debounced = loop.debounced
              /\ loop'.forced = loop.forced
              /\ loop'.tasks <= loop.tasks
              /\ n_refresh' + loop'.tasks = n_refresh + loop.tasks
      ]_vars

\* The manager was stopped one second after a state change armed the timer,
\* and the clock passed the due time of that timer without a recompute.
C22_Witness ==
    /\ Stopped(mgr, n_refresh) /\ mgr.debounce_s > 0
    /\ loop.triggers = 1 /\ loop.forced = 0
    /\ now > loop.last_trigger + mgr.debounce_s
    /\ loop.timers = {} /\ loop.debounced = 0 /\ n_refresh = 1

\* The calls of side a come before the calls of side b.
AThenB(calls) ==
    \A i, j \in 1..Len(calls) :
        (calls[i].side = "b" /\ calls[j].side = "a") => j < i

\* C24: no failing notify or update_entity call leaves the press: the press
\* goes from the source update of A to that of B to the forced refresh, and
\* it ends only with the forced recompute, made after the calls for A and
\* then the calls for B.
C24_FailuresSwallowed ==
    [][ /\ press'.pc # "raised"
        /\ press.pc = "idle" => press'.pc \in {"idle", "b"}
        /\ press.pc = "b" => press'.pc \in {"b", "refresh"}
        /\ press.pc = "refresh" => press'.pc \in {"refresh", "idle"}
        /\ press'.presses # press.presses =>
              /\ press.pc = "refresh"
              /\ n_refresh' = n_refresh + 1
              /\ last'.at = now
              /\ loop'.forced = loop.forced + 1
              /\ press'.calls = press.calls
              /\ AThenB(press.calls)
      ]_vars

\* A press whose notify call for A and whose update_entity call for B raised
\* has ended with its forced recompute.
C24_Witness ==
    /\ press.pc = "idle" /\ press.presses = 1
    /\ \E i, j \in 1..Len(press.calls) :
          /\ press.calls[i] = ServiceCall("notify", "a", TRUE)
          /\ press.calls[j] = ServiceCall("update_entity", "b", TRUE)
    /\ loop.forced = 1 /\ last.at = loop.last_forced

\* C23: every recompute, Valid or Invalid, sends the dispatcher signal
\* exactly once and as its last step: the listeners find proximity and
\* data_valid as the recompute leaves them, and every event of the recompute
\* is already on the bus.
C23_SignalLast ==
    n_refresh > 0 =>
        /\ Len(last.signals) = 1
        /\ last.signals[1].proximity = mgr.data.proximity
        /\ last.signals[1].data_valid = mgr.data.data_valid
        /\ last.signals[1].fired = Len(bus)

\* A Valid recompute that entered proximity and fired its events, and an
\* Invalid one are both covered; this is the entering one.
C23_Witness ==
    /\ LastValid
    /\ mgr.data.proximity /\ ~last.prev_prox
    /\ Len(bus) > 0
    /\ Len(last.signals) = 1

\* The attribute of the latest state object under the i-th accuracy key.
Field(i) == extract.state.attributes[AccuracyKeys[i]]

\* C25 as stated: the first attribute that is not None decides; the result
\* is its number, or None when float() rejects it.
C25_FirstPresentWins ==
    (extract.called /\ extract.state # NoneValue) =>
        /\ (\A i \in 1..3 : Field(i) = NoneValue) => extract.accuracy = None
        /\ \A i \in 1..3 :
              (Field(i) # NoneValue /\ \A j \in 1..(i - 1) : Field(j) = NoneValue) =>
                  extract.accuracy = float(Field(i)).value

\* C25: the first attribute that is not None and that float() accepts
\* decides; an attribute float() rejects is passed over like None, and the
\* result is None only when no attribute is accepted.
C25_FirstCoercibleWins ==
    (extract.called /\ extract.state # NoneValue) =>
        LET Passed(i) == Field(i) = NoneValue \/ float(Field(i)).raised
        IN  /\ (\A i \in 1..3 : Passed(i)) => extract.accuracy = None
            /\ \A i \in 1..3 :
                  (~Passed(i) /\ \A j \in 1..(i - 1) : Passed(j)) =>
                      extract.accuracy = float(Field(i)).value

\* gps_accuracy is a string float() rejects and accuracy is 15: the result
\* is 15.
C25_Witness ==
    /\ extract.called /\ extract.state # NoneValue
    /\ Field(1) = String(<<"u", "n", "k", "n", "o", "w", "n">>)
    /\ Field(2) = Number(15)
    /\ extract.accuracy = 15

\* The normal enter events on hass.bus since the tracked entities last
\* changed state.
Enters == { i \in 1..Len(platform.bus) : platform.bus[i].name = EVENT_ENTER }

\* C26: the sensor entities keep no proximity state and fire no events, so
\* one change of the tracked entities puts at most one normal enter event on
\* the bus, and none when require_reliable_proximity is set and the manager
\* judged the entry unreliable.
C26_SensorsOnlyRender ==
    /\ \A i \in SensorIds : ~platform.sensors[i]._proximity
    /\ \A i \in 1..Len(platform.bus) : platform.bus[i].source = "manager"
    /\ Cardinality(Enters) <= 1
    /\ ( /\ "manager" \in platform.ran
         /\ entry.require_reliable_proximity
         /\ mgr.data.proximity /\ ~last.prev_prox
         /\ ~mgr.data.proximity_reliable ) => Enters = {}

\* C27: both update histories hold the same timestamps, so the two update
\* counts are equal after every Valid recompute and the verdict never names
\* insufficient_updates_b.
C27_HistoriesAgree ==
    /\ mgr.a_update_history = mgr.b_update_history
    /\ LastValid => mgr.data.a_updates_in_window = mgr.data.b_updates_in_window
    /\ mgr.data.unreliable_reason # "insufficient_updates_b"

\* Two Valid recomputes within the window: both counts are 2, which is what
\* min_updates_for_proximity asks of each side.
C27_Witness ==
    /\ LastValid
    /\ entry.min_updates_for_proximity = 2
    /\ mgr.data.a_updates_in_window = 2 /\ mgr.data.b_updates_in_window = 2
    /\ Len(mgr.b_update_history) = 2
    /\ mgr.data.unreliable_reason # "insufficient_updates_a"

\* C28: the verdict never names resync_a or resync_b: a Valid recompute, the
\* only kind that assesses reliability, runs at a time when neither side is
\* inside its resync-hold window.
C28_NoResyncVerdict ==
    /\ mgr.data.unreliable_reason \notin {"resync_a", "resync_b"}
    /\ LastValid =>
          /\ mgr.a_resync_until = None \/ last.at >= mgr.a_resync_until
          /\ mgr.b_resync_until = None \/ last.at >= mgr.b_resync_until

\* After a silence the movement filter rejected one recompute for each side
\* and opened the hold windows; the next Valid recompute came after both had
\* ended and was judged reliable.
C28_Witness ==
    /\ LastValid /\ n_refresh = 4
    /\ mgr.a_resync_until # None /\ last.at >= mgr.a_resync_until
    /\ mgr.b_resync_until # None /\ last.at >= mgr.b_resync_until
    /\ mgr.data.proximity_reliable

\* C29: for every accepted configuration (exit_th >= entry_th), Valid
\* recomputes that see one constant distance change proximity at most once:
\* when a Valid recompute changed proximity, a Valid recompute that follows
\* it at the same distance does not change it again.
C29_NoFlapping ==
    [][ ( /\ n_refresh' = n_refresh + 1
          /\ entry.exit_threshold_m >= entry.entry_threshold_m
          /\ LastValid /\ mgr'.data.data_valid
          /\ mgr'.data.distance_m = mgr.data.distance_m
          /\ mgr.data.proximity # last.prev_prox )
        => mgr'.data.proximity = mgr.data.proximity ]_vars

\* C30: with max_speed_kmh = 0 speed decides nothing: no recompute is
\* rejected as speed_filtered_a or speed_filtered_b, and no Valid recompute
\* is judged unreliable for unrealistic_convergence.
C30_SpeedPlaysNoRole ==
    (entry.max_speed_kmh = 0 /\ n_refresh > 0) =>
        /\ mgr.data.last_error \notin {"speed_filtered_a", "speed_filtered_b"}
        /\ LastValid => mgr.data.unreliable_reason # "unrealistic_convergence"

\* C31: while both subjects report accurate, stationary coordinates and
\* recomputes keep being triggered, whatever the accepted options, a Valid
\* recompute occurs again and again: the pair is never rejected forever.
C31_EventuallyValid == []<>(n_refresh > 0 /\ mgr.data.data_valid)

\* What the latest recorded recompute found for a side (in prior) and left
\* of it (in mgr), the reading it handed to process_side and the result.
SideBefore(side) == SideOf(prior, side)
SideAfter(side) == SideOf(mgr, side)
CoordsOf(side) == IF side = "a" THEN last.coords_a ELSE last.coords_b
ResultOf(side) == IF side = "a" THEN last.res_a ELSE last.res_b

\* The side was given to process_side by the latest recompute.
Processed(side) == n_refresh > 0 /\ ResultOf(side) # "not_called"

\* The reading came more than resync_silence_s after the side's last fix.
AfterSilence(side) ==
    /\ SideBefore(side).last_fix # None
    /\ last.at - SideBefore(side).last_fix > entry.resync_silence_s

\* The reading came while a hold of the side was running.
DuringHold(side) ==
    /\ SideBefore(side).resync_until # None
    /\ last.at < SideBefore(side).resync_until

\* C32: a reading that follows a silence makes resync_until = now +
\* resync_hold_s, also while a hold is running (the silence is looked at
\* first); a reading during a hold that follows no silence leaves
\* resync_until alone; both make the reading the side's previous coordinate
\* and last fix, reset its speed to absent and report resync_<side>.
C32_ResyncBaseline ==
    \A side \in {"a", "b"} :
        Processed(side) =>
            /\ AfterSilence(side) =>
                  /\ SideAfter(side) =
                        [ prev_coords |-> CoordsOf(side), last_fix |-> last.at,
                          speed_kmh |-> NoSpeed,
                          resync_until |-> last.at + entry.resync_hold_s ]
                  /\ ResultOf(side) = "resync_" \o side
            /\ (~AfterSilence(side) /\ DuringHold(side)) =>
                  /\ SideAfter(side) =
                        [ prev_coords |-> CoordsOf(side), last_fix |-> last.at,
                          speed_kmh |-> NoSpeed,
                          resync_until |-> SideBefore(side).resync_until ]
                  /\ ResultOf(side) = "resync_" \o side

\* A reading of side a followed a silence while a hold of side a was running,
\* and the hold was restarted.
C32_Witness ==
    /\ Processed("a") /\ AfterSilence("a") /\ DuringHold("a")
    /\ mgr.a_resync_until = last.at + entry.resync_hold_s
    /\ mgr.a_resync_until > prior.a_resync_until

\* The recompute before the latest one rejected the side for its speed.
RejectedBefore(side) == prior.data.last_error = "speed_filtered_" \o side

\* C33: a reading rejected for its speed becomes the side's previous
\* coordinate and last fix, and its speed is stored; the reading that follows
\* within the silence limit is therefore measured from the rejected position,
\* and one that repeats that position is accepted for the side.
C33_RejectedBaseline ==
    \A side \in {"a", "b"} :
        /\ (Processed(side) /\ ResultOf(side) = "speed_filtered_" \o side) =>
              SideAfter(side) =
                 [ prev_coords |-> CoordsOf(side), last_fix |-> last.at,
                   speed_kmh |->
                      SpeedKmh(ha_distance(SideBefore(side).prev_coords, CoordsOf(side)),
                               last.at - SideBefore(side).last_fix),
                   resync_until |-> SideBefore(side).resync_until ]
        /\ (RejectedBefore(side) /\ Processed(side) /\ ~AfterSilence(side)
               /\ CoordsOf(side) = SideBefore(side).prev_coords) =>
              ResultOf(side) = NoneStr

\* Side b jumped and was rejected; a minute later it reported the same
\* position again and the recompute was Valid.
C33_Witness ==
    /\ RejectedBefore("b") /\ Processed("b") /\ ResultOf("b") = NoneStr
    /\ CoordsOf("b") = prior.b_prev_coords
    /\ last.at > prior.b_last_fix
    /\ mgr.b_speed_kmh = SpeedKmh(0, last.at - prior.b_last_fix)
    /\ mgr.data.data_valid

\* The update history of a side.
HistoryOf(m, side) == IF side = "a" THEN m.a_update_history ELSE m.b_update_history

\* The count the reliability check stored for a side.
UpdatesInWindow(m, side) ==
    IF side = "a" THEN m.data.a_updates_in_window ELSE m.data.b_updates_in_window

\* C34: a Valid recompute appends its time once to the update history of
\* each side and then drops the entries older than 2 * update_window_s; an
\* Invalid recompute leaves the histories alone.  So every entry lies within
\* 2 * update_window_s of the last one, and the count of a Valid recompute
\* is at least 1.
C34_UpdateHistory ==
    \A side \in {"a", "b"} :
        LET history == HistoryOf(mgr, side)
            found == HistoryOf(prior, side)
            cutoff == last.at - 2 * entry.update_window_s
        IN  /\ LastValid =>
                  /\ history =
                        SelectSeq(found, LAMBDA ts : ts >= cutoff) \o << last.at >>
                  /\ UpdatesInWindow(mgr, side) >= 1
            /\ LastInvalid => history = found
            /\ \A i \in 1..Len(history) :
                  history[Len(history)] - history[i] <= 2 * entry.update_window_s

\* A Valid recompute appended its time and dropped an older one.
C34_Witness ==
    /\ LastValid
    /\ Len(prior.a_update_history) = 3
    /\ Len(mgr.a_update_history) = 3
    /\ mgr.a_update_history[3] = last.at
    /\ mgr.data.a_updates_in_window = 2

\* Both sides have min_updates_for_proximity updates in the window.
SufficientUpdates ==
    \A side \in {"a", "b"} :
        UpdatesInWindow(mgr, side) >= entry.min_updates_for_proximity

\* (previous_distance - distance) / dt * 3.6 for the latest recompute, from
\* the distance and the time the manager held when the recompute began.
ExpectedConvergence ==
    IF prior._prev_distance_m = None \/ prior._prev_distance_time = None
    THEN NoSpeed
    ELSE IF last.at - prior._prev_distance_time <= 0 THEN NoSpeed
    ELSE SpeedKmh(prior._prev_distance_m - LastDistance,
                  last.at - prior._prev_distance_time)

\* C35: the distance and time the convergence speed starts from are those
\* of the latest Valid recompute (an Invalid one leaves them alone); on a
\* Valid recompute with sufficient update counts the speed stored is
\* (previous_distance - distance) / dt * 3.6, absent without a previous
\* distance or with dt <= 0, and the verdict is unrealistic_convergence
\* exactly when the speed exceeds 2 * max_speed_kmh; a negative speed is
\* never flagged.
C35_Convergence ==
    /\ mgr._prev_distance_m = mgr.data.distance_m
    /\ mgr._prev_distance_time = mgr.data.last_valid_updated
    /\ LastInvalid =>
          /\ mgr._prev_distance_m = prior._prev_distance_m
          /\ mgr._prev_distance_time = prior._prev_distance_time
    /\ LastValid =>
          /\ mgr._prev_distance_m = LastDistance
          /\ mgr._prev_distance_time = last.at
    /\ (LastValid /\ SufficientUpdates) =>
          /\ mgr.data.convergence_speed_kmh = ExpectedConvergence
          /\ mgr.data.unreliable_reason = "unrealistic_convergence" <=>
                /\ ExpectedConvergence # NoSpeed
                /\ ExpectedConvergence.num >
                      2 * entry.max_speed_kmh * ExpectedConvergence.den
          /\ ExpectedConvergence.num < 0 =>
                mgr.data.unreliable_reason # "unrealistic_convergence"

\* With a positive speed limit: after a Valid recompute and an Invalid one,
\* a Valid recompute measured the approach from the earlier Valid one and
\* judged it unrealistic.
C35_Witness ==
    /\ LastValid /\ SufficientUpdates
    /\ entry.max_speed_kmh > 0
    /\ ~prior.data.data_valid
    /\ prior._prev_distance_time # None
    /\ prior._prev_distance_time < prior.b_last_fix
    /\ mgr.data.unreliable_reason = "unrealistic_convergence"
    /\ mgr.data.convergence_speed_kmh = ExpectedConvergence

\* The latest recompute was Valid and stayed in proximity.
Stayed == LastValid /\ last.prev_prox /\ mgr.data.proximity

\* The events of heard from position i to position j are update events only:
\* no enter, unreliable enter or leave lies between them.
SameEpisode(i, j) ==
    \A k \in i..j : heard[k].name = EVENT_PROXIMITY_UPDATE

EnterEvents == { EVENT_ENTER, EVENT_ENTER_UNRELIABLE }
TransitionNames == EnterEvents \cup { EVENT_LEAVE }

\* The enter-type and leave events among events, in order.
TransitionsOf(events) ==
    SelectSeq(events, LAMBDA ev : ev.name \in TransitionNames)

\* C37: the enter-type and leave events a manager fires over its run
\* alternate, the first being an enter-type event; one recompute fires at
\* most one of them; an update event is fired only by a recompute that ends
\* in proximity.
C37_Alternation ==
    LET transitions == TransitionsOf(heard)
    IN  /\ \A i \in 1..Len(transitions) :
              IF i % 2 = 1 THEN transitions[i].name \in EnterEvents
              ELSE transitions[i].name = EVENT_LEAVE
        /\ Len(TransitionsOf(bus)) <= 1
        /\ (\E i \in 1..Len(bus) : bus[i].name = EVENT_PROXIMITY_UPDATE) =>
              mgr.data.proximity

\* The listener received an enter, a leave and then an unreliable enter.
C37_Witness ==
    LET transitions == TransitionsOf(heard)
    IN  /\ Len(transitions) = 3
        /\ transitions[1].name = EVENT_ENTER
        /\ transitions[2].name = EVENT_LEAVE
        /\ transitions[3].name = EVENT_ENTER_UNRELIABLE
        /\ TransitionsOf(bus) = << transitions[3] >>

\* The codes an Invalid recompute stores in last_error.
RejectionCodes ==
    { "missing_coords", "accuracy_filtered_a", "accuracy_filtered_b",
      "resync_a", "resync_b", "speed_filtered_a", "speed_filtered_b" }

\* C38: after a Valid recompute last_error is absent and distance_m, bucket
\* and last_valid_updated are set; after an Invalid one last_error is one of
\* the seven rejection codes; and a distance_m that is set has the bucket
\* _bucket gives it.
C38_StateConsistency ==
    /\ LastValid =>
          /\ mgr.data.last_error = NoneStr
          /\ mgr.data.distance_m # None
          /\ mgr.data.bucket # NoneStr
          /\ mgr.data.last_valid_updated # None
    /\ LastInvalid => mgr.data.last_error \in RejectionCodes
    /\ mgr.data.distance_m # None =>
          mgr.data.bucket = _bucket(mgr.data.distance_m)

\* An Invalid recompute rejected for a silence of side b keeps the distance
\* and the bucket of the Valid recompute before it.
C38_Witness ==
    /\ LastInvalid
    /\ mgr.data.last_error = "resync_b"
    /\ mgr.data.distance_m # None
    /\ mgr.data.bucket = _bucket(mgr.data.distance_m)
    /\ mgr.data.last_valid_updated # None
    /\ mgr.data.last_valid_updated < last.at

\* An update of the coordinator has just run.
Updated == n_refresh' = n_refresh + 1

\* The summary events among events, and the per-target events of target t.
AnyEventsOf(events) ==
    SelectSeq(events, LAMBDA ev : ev.name \in {EVENT_ANY_ENTER, EVENT_ANY_LEAVE})
PairEventsOf(events, t) ==
    SelectSeq(events, LAMBDA ev : ev.name \in {EVENT_ENTER, EVENT_LEAVE} /\ ev.target = t)

\* any_proximity and the proximity of target t as the update found them.
AnyBefore == IF n_refresh = 0 THEN FALSE ELSE coord.data.any_proximity
ProxBefore(t) ==
    IF n_refresh = 0 \/ t \notin DOMAIN coord.data.pairs THEN FALSE
    ELSE coord.data.pairs[t].proximity

\* The reading the update found for id has no coordinates, or an accuracy
\* radius above the ceiling in force.
Unusable(id) ==
    LET st == last'.states[id]
    IN  \/ st.coords = None
        \/ entry.max_accuracy_m > 0 /\ st.acc # None /\ st.acc > entry.max_accuracy_m

\* C39: after every update of the coordinator any_proximity is the
\* disjunction of the targets' proximity values; one any-enter or any-leave
\* event is fired exactly when any_proximity differs from its value after
\* the previous update, so these events alternate from an any-enter; and a
\* target whose reading, or the anchor's, is missing or accuracy-filtered
\* keeps its proximity and fires no event of its own.
C39_Coordinator ==
    [][ Updated =>
          LET data == coord'.data
              fired == AnyEventsOf(bus')
              earlier == AnyEventsOf(heard)
          IN  /\ DOMAIN data.pairs = { data.targets[i] : i \in DOMAIN data.targets }
              /\ data.any_proximity = (\E t \in DOMAIN data.pairs : data.pairs[t].proximity)
              /\ Len(fired) = (IF data.any_proximity # AnyBefore THEN 1 ELSE 0)
              /\ fired # << >> =>
                    /\ fired[1].name =
                          (IF data.any_proximity THEN EVENT_ANY_ENTER ELSE EVENT_ANY_LEAVE)
                    /\ fired[1].name =
                          (IF earlier = << >> THEN EVENT_ANY_ENTER
                           ELSE IF earlier[Len(earlier)].name = EVENT_ANY_ENTER
                           THEN EVENT_ANY_LEAVE ELSE EVENT_ANY_ENTER)
              /\ \A t \in DOMAIN data.pairs :
                    Unusable(Anchor) \/ Unusable(t) =>
                       /\ data.pairs[t].proximity = ProxBefore(t)
                       /\ PairEventsOf(bus', t) = << >>
      ]_vars

\* After an any-enter and an any-leave, both targets entered again; then t1
\* came with an accuracy radius above the ceiling and stayed in proximity
\* while t2 left: any_proximity stays true and only t2 fires an event.
C39_Witness ==
    /\ n_refresh = MaxCoordUpdates
    /\ coord.targets = <<"t1", "t2">>
    /\ entry.max_accuracy_m > 0
    /\ last.states["t1"].acc # None /\ last.states["t1"].coords # None
    /\ coord.data.pairs["t1"].proximity
    /\ coord.data.pairs["t1"].distance_m = None
    /\ ~coord.data.pairs["t2"].proximity
    /\ coord.data.any_proximity
    /\ Len(bus) = 1 /\ bus[1].name = EVENT_LEAVE /\ bus[1].target = "t2"
    /\ Len(AnyEventsOf(heard)) = 3

====
